---- MODULE Spec2Model ----
(***************************************************************************)
(* Model of the ClickUp / TypingMind integration server: the multi-kind    *)
(* context endpoint (GET /context/clickup-all), the ClickUp service with   *)
(* its token selection, the in-memory token manager and the formatters     *)
(* that build the combined context document.                               *)
(*                                                                         *)
(* A JavaScript string is a sequence of tokens; the line break "\n" is     *)
(* always a token of its own, so "\n\n" is two adjacent NL tokens.         *)
(* A JavaScript value is a record tagged by its type in field t.           *)
(***************************************************************************)
EXTENDS Integers, Sequences, FiniteSets, TLC

\* ------------------------------------------------------------------ bounds
MaxKinds  == 2    \* longest dataTypes list of a request
MaxSpaces == 2    \* most spaces a workspace answers with
MaxLimit  == 2    \* largest value of the limit parameter
MaxTasks  == 1    \* most items in one tasks answer
MaxItems  == 1    \* most lists or folders one space answers with
MaxCalls  == 3    \* most upstream calls issued for one request

\* --------------------------------------------------------------- JS values
NL == "\n"

Undef == [t |-> "undefined"]
Null == [t |-> "null"]
Str(s) == [t |-> "string", s |-> s]
Num(n) == [t |-> "number", n |-> n]
Arr(a) == [t |-> "array", a |-> a]

\* JavaScript truthiness
Truthy(v) ==
  CASE v.t = "undefined" -> FALSE
    [] v.t = "null" -> FALSE
    [] v.t = "string" -> Len(v.s) > 0
    [] v.t = "number" -> v.n # 0
    [] OTHER -> TRUE

\* obj[part] on a value that is neither null nor undefined
Prop(v, f) ==
  IF v.t \in {"object", "error"} /\ f \in DOMAIN v /\ f # "t" THEN v[f]
  ELSE IF v.t = "array" /\ f = "length" THEN Num(Len(v.a))
  ELSE Undef

\* a.join(sep) on a sequence of strings (token sequences)
RECURSIVE Join(_, _)
Join(ss, sep) ==
  IF Len(ss) = 0 THEN <<>>
  ELSE IF Len(ss) = 1 THEN ss[1]
  ELSE ss[1] \o <<sep>> \o Join(Tail(ss), sep)

\* `${v}` in a template literal
RECURSIVE ToStr(_)
ToStr(v) ==
  CASE v.t = "string" -> v.s
    [] v.t = "number" -> <<ToString(v.n)>>
    [] v.t = "null" -> <<"null">>
    [] v.t = "undefined" -> <<"undefined">>
    [] v.t = "array" ->
         Join([i \in 1..Len(v.a) |->
                 IF v.a[i].t \in {"null", "undefined"} THEN <<>> ELSE ToStr(v.a[i])], ",")
    [] OTHER -> <<"[object Object]">>

\* x || y
Or(x, y) == IF Truthy(x) THEN x ELSE y

\* the concatenation of a sequence of token sequences
RECURSIVE Flat(_)
Flat(ss) == IF Len(ss) = 0 THEN <<>> ELSE ss[1] \o Flat(Tail(ss))

\* ------------------------------------------------------------ kind strings
KnownKinds == {"tasks", "spaces", "lists", "folders"}

\* dataType.trim()
Trim(k) ==
  CASE k = " spaces" -> "spaces"
    [] k = "tasks " -> "tasks"
    [] OTHER -> k

\* dataType.toUpperCase()
ToUpperCase(k) ==
  CASE k = "tasks" -> "TASKS"
    [] k = "spaces" -> "SPACES"
    [] k = "lists" -> "LISTS"
    [] k = "folders" -> "FOLDERS"
    [] k = "comments" -> "COMMENTS"
    [] OTHER -> k

\* dataType.charAt(0).toUpperCase() + dataType.slice(1)
Capitalize(k) ==
  CASE k = "tasks" -> "Tasks"
    [] k = "spaces" -> "Spaces"
    [] k = "lists" -> "Lists"
    [] k = "folders" -> "Folders"
    [] k = "comments" -> "Comments"
    [] OTHER -> k

\* ------------------------------------------------------------- formatters
DescLimit == 100

\* A point in time is counted in days since the epoch (2024-01-15 is day
\* 19737, epoch millisecond 1705276800000); NaN is the time value of an
\* Invalid Date.
IsoA == <<"2024-01-15T00:00:00.000Z">>
MsA == 19737
NaN == -1

\* Date.parse of a string: an ISO string parses, a string of 13 digits
\* (epoch milliseconds written as text) and any other text do not
ParseDateString(s) == IF s = IsoA THEN MsA ELSE NaN

\* date.toISOString()
ToISOString(ms) == IF ms = MsA THEN IsoA ELSE <<"iso:", ToString(ms)>>

\* parseInt(timestamp) of a value that is not a string
ParseInt(v) == IF v.t = "number" THEN v.n ELSE NaN

safeDate(timestamp) ==
  IF ~Truthy(timestamp) THEN Null
  ELSE LET ms == IF timestamp.t = "string" THEN ParseDateString(timestamp.s)
                 ELSE ParseInt(timestamp)
       IN IF ms # NaN THEN Str(ToISOString(ms)) ELSE Null

\* the safe path accessor; path is the sequence of the dotted parts
RECURSIVE get(_, _, _)
get(obj, path, defaultValue) ==
  IF Len(path) = 0 THEN (IF obj.t = "undefined" THEN defaultValue ELSE obj)
  ELSE IF obj.t \in {"null", "undefined"} THEN defaultValue
  ELSE get(Prop(obj, Head(path)), Tail(path), defaultValue)

IsArray(v) == v.t = "array"

\* one element of tasks.map(...): the try block raises exactly when the item
\* is null or undefined (task.assignees), and the catch block then returns
\* the simplified entry.  Fields that no renderer reads (priority, time
\* estimates, created/updated/start dates, url) are left out.
FormatTaskFull(task) ==
  [t |-> "object",
   id |-> get(task, <<"id">>, Str(<<"unknown-id">>)),
   name |-> get(task, <<"name">>, Str(<<"Unnamed Task">>)),
   description |-> get(task, <<"description">>, Str(<<>>)),
   status |-> [t |-> "object",
               status |-> get(task, <<"status", "status">>, Str(<<"Unknown">>))],
   dueDate |-> safeDate(get(task, <<"due_date">>, Null)),
   assignees |->
     IF IsArray(Prop(task, "assignees"))
     THEN Arr([i \in 1..Len(task.assignees.a) |->
                 [t |-> "object",
                  username |-> get(task.assignees.a[i], <<"username">>, Null),
                  email |-> get(task.assignees.a[i], <<"email">>, Null)]])
     ELSE Arr(<<>>),
   tags |-> IF IsArray(get(task, <<"tags">>, Null))
            THEN get(task, <<"tags">>, Null) ELSE Arr(<<>>)]

FormatTaskDegraded(task) ==
  [t |-> "object",
   id |-> get(task, <<"id">>, Str(<<"unknown">>)),
   name |-> get(task, <<"name">>, Str(<<"Unknown task">>)),
   error |-> Str(<<"Error formatting task data">>)]

\* the variant without the catch block's simplified entry
FormatTaskAlwaysFull(task) == FormatTaskFull(task)

FormatTask(task) ==
  IF task.t \in {"null", "undefined"} THEN FormatTaskDegraded(task)
  ELSE FormatTaskFull(task)

\* data.tasks || data || []
TasksOf(data) == Or(Or(Prop(data, "tasks"), data), Arr(<<>>))

\* JSON.stringify(task).substring(...) in the catch block raises for an
\* undefined item, and that error leaves tasks.map
formatTasksThrows(data) ==
  /\ IsArray(TasksOf(data))
  /\ \E i \in 1..Len(TasksOf(data).a) : TasksOf(data).a[i].t = "undefined"

formatTasksForTypingMind(data) ==
  IF ~IsArray(TasksOf(data)) THEN Arr(<<>>)
  ELSE Arr([i \in 1..Len(TasksOf(data).a) |-> FormatTask(TasksOf(data).a[i])])

\* The formatters of spaces, lists, folders and comments return an object
\* { text: ... }, never an array.
TextObj(text) == [t |-> "object", text |-> Str(text)]

SpaceBlock(space, index) ==
  <<ToString(index), ". Space: ">> \o ToStr(Prop(space, "name")) \o <<NL>>
  \o <<"   ID: ">> \o ToStr(Prop(space, "id")) \o <<NL>>
  \o (IF Truthy(Prop(space, "statuses")) /\ IsArray(Prop(space, "statuses"))
         /\ Len(space.statuses.a) > 0
      THEN <<"   Statuses: ">>
           \o Join([i \in 1..Len(space.statuses.a) |->
                      ToStr(Prop(space.statuses.a[i], "status"))], ", ")
           \o <<NL>>
      ELSE <<>>)
  \o <<NL>>

ListBlock(list, index) ==
  <<ToString(index), ". List: ">> \o ToStr(Prop(list, "name")) \o <<NL>>
  \o <<"   ID: ">> \o ToStr(Prop(list, "id")) \o <<NL>>
  \o (IF Truthy(Prop(list, "status"))
      THEN <<"   Status: ">> \o ToStr(Prop(list, "status")) \o <<NL>> ELSE <<>>)
  \o (IF Prop(list, "task_count").t # "undefined"
      THEN <<"   Task Count: ">> \o ToStr(Prop(list, "task_count")) \o <<NL>>
      ELSE <<>>)
  \o <<NL>>

FolderBlock(folder, index) ==
  <<ToString(index), ". Folder: ">> \o ToStr(Prop(folder, "name")) \o <<NL>>
  \o <<"   ID: ">> \o ToStr(Prop(folder, "id")) \o <<NL>>
  \o (IF Truthy(Prop(folder, "lists")) /\ IsArray(Prop(folder, "lists"))
         /\ Len(folder.lists.a) > 0
      THEN <<"   Lists: ", ToString(Len(folder.lists.a)), NL>> ELSE <<>>)
  \o <<NL>>

\* items.forEach(...) raises when the property is no array or an item is
\* null or undefined
ItemsThrow(items) ==
  /\ Truthy(items)
  /\ \/ ~IsArray(items)
     \/ \E i \in 1..Len(items.a) : items.a[i].t \in {"null", "undefined"}

formatSpacesForTypingMind(data) ==
  IF ~Truthy(Prop(data, "spaces")) THEN TextObj(<<"No spaces found.">>)
  ELSE TextObj(<<"ClickUp Spaces:", NL, NL>>
         \o Flat([i \in 1..Len(data.spaces.a) |-> SpaceBlock(data.spaces.a[i], i)]))

formatListsForTypingMind(data) ==
  IF ~Truthy(Prop(data, "lists")) THEN TextObj(<<"No lists found.">>)
  ELSE TextObj(<<"ClickUp Lists:", NL, NL>>
         \o Flat([i \in 1..Len(data.lists.a) |-> ListBlock(data.lists.a[i], i)]))

formatFoldersForTypingMind(data) ==
  IF ~Truthy(Prop(data, "folders")) THEN TextObj(<<"No folders found.">>)
  ELSE TextObj(<<"ClickUp Folders:", NL, NL>>
         \o Flat([i \in 1..Len(data.folders.a) |-> FolderBlock(data.folders.a[i], i)]))

formatCommentsForTypingMind(data) ==
  IF ~Truthy(Prop(data, "comments")) THEN TextObj(<<"No comments found.">>)
  ELSE TextObj(<<"ClickUp Comments:", NL, NL>>
         \o Flat([i \in 1..Len(data.comments.a) |->
                    <<ToString(i), ". Comment by: ">>
                    \o (IF Truthy(Prop(data.comments.a[i], "user"))
                        THEN ToStr(Prop(data.comments.a[i].user, "username"))
                        ELSE <<"Unknown">>)
                    \o <<NL, "   Date: ">>
                    \o ToStr(safeDate(Prop(data.comments.a[i], "date")))
                    \o <<NL, "   Text: ">>
                    \o SelectSeq(ToStr(Prop(data.comments.a[i], "comment_text")),
                                 LAMBDA c : c # "*")
                    \o <<NL, NL>>]))

\* Object.keys(data).length === 0
NoKeys(data) ==
  \/ data.t = "object" /\ DOMAIN data = {"t"}
  \/ data.t = "array" /\ Len(data.a) = 0
  \/ data.t = "string" /\ Len(data.s) = 0
  \/ data.t \in {"number", "boolean"}

formatGenericForTypingMind(data, dataType) ==
  IF ~Truthy(data) \/ NoKeys(data)
  THEN TextObj(<<"No ", dataType, " data found.">>)
  ELSE TextObj(<<"ClickUp ", dataType, " data:", NL, NL, "JSON.stringify(data)">>)

\* ---- description clean-up: the four chained replace calls, on a
\* description given character by character.  Each scan jumps from one
\* special character to the next.
\* the first index >= from holding character ch, or 0
IndexFrom(s, ch, from) ==
  LET hits == {i \in from..Len(s) : s[i] = ch}
  IN IF hits = {} THEN 0 ELSE CHOOSE i \in hits : \A j \in hits : i <= j

\* replace(/\*\*/g, '')
RECURSIVE RemoveStarPairs(_)
RemoveStarPairs(s) ==
  LET i == IndexFrom(s, "*", 1)
  IN IF i = 0 THEN s
     ELSE IF i < Len(s) /\ s[i + 1] = "*"
          THEN SubSeq(s, 1, i - 1) \o RemoveStarPairs(SubSeq(s, i + 2, Len(s)))
          ELSE SubSeq(s, 1, i) \o RemoveStarPairs(SubSeq(s, i + 1, Len(s)))

RemoveStars(s) == SelectSeq(s, LAMBDA c : c # "*")

\* the end of a match of \[([^\]]+)\]\([^)]+\) that starts at s[1], or 0
LinkEnd(s) ==
  LET j == IndexFrom(s, "]", 2)
      k == IF j = 0 THEN 0 ELSE IndexFrom(s, ")", j + 2)
  IN IF /\ Len(s) >= 1 /\ s[1] = "[" /\ j > 2
        /\ j + 1 <= Len(s) /\ s[j + 1] = "(" /\ k > j + 2
     THEN k ELSE 0

RECURSIVE ReplaceLinks(_)
ReplaceLinks(s) ==
  LET i == IndexFrom(s, "[", 1)
      rest == SubSeq(s, i, Len(s))
  IN IF i = 0 THEN s
     ELSE IF LinkEnd(rest) # 0
          THEN SubSeq(s, 1, i - 1)
               \o SubSeq(rest, 2, IndexFrom(rest, "]", 2) - 1)
               \o ReplaceLinks(SubSeq(rest, LinkEnd(rest) + 1, Len(rest)))
          ELSE SubSeq(s, 1, i) \o ReplaceLinks(SubSeq(s, i + 1, Len(s)))

IsSpaceChar(c) == c \in {" ", NL, "\t"}

\* the length of the run of "#" at the head of s, at most 6
RECURSIVE HashRun(_, _)
HashRun(s, n) ==
  IF n < 6 /\ Len(s) > n /\ s[n + 1] = "#" THEN HashRun(s, n + 1) ELSE n

\* replace(/#{1,6}\s?/g, '')
RECURSIVE RemoveHeadings(_)
RemoveHeadings(s) ==
  LET i == IndexFrom(s, "#", 1)
      rest == SubSeq(s, i, Len(s))
      r == HashRun(rest, 0)
      e == IF Len(rest) > r /\ IsSpaceChar(rest[r + 1]) THEN r + 1 ELSE r
  IN IF i = 0 THEN s
     ELSE SubSeq(s, 1, i - 1) \o RemoveHeadings(SubSeq(rest, e + 1, Len(rest)))

CleanDescription(d) == RemoveHeadings(ReplaceLinks(RemoveStars(RemoveStarPairs(d))))

\* the variant that already cuts a text of exactly DescLimit characters
TruncateOffByOne(d) ==
  IF Len(d) >= DescLimit THEN SubSeq(d, 1, DescLimit) \o <<"...">> ELSE d

\* cleanDescription.length > 100 ? cleanDescription.substring(0, 100) + '...'
\*                                : cleanDescription
Truncate(d) == IF Len(d) > DescLimit THEN SubSeq(d, 1, DescLimit) \o <<"...">> ELSE d

\* ---- convertToTypingMindContext
TaskBlock(task, index) ==
  <<ToString(index), ". Task: ">> \o ToStr(Prop(task, "name")) \o <<NL>>
  \o <<"   ID: ">> \o ToStr(Prop(task, "id")) \o <<NL>>
  \o (IF Truthy(Prop(task, "status")) /\ Truthy(Prop(Prop(task, "status"), "status"))
      THEN <<"   Status: ">> \o ToStr(Prop(Prop(task, "status"), "status")) \o <<NL>>
      ELSE <<>>)
  \o (IF Truthy(Prop(task, "dueDate"))
      THEN <<"   Due: ">> \o ToStr(Prop(task, "dueDate")) \o <<NL>> ELSE <<>>)
  \o (IF Truthy(Prop(task, "description"))
      THEN <<"   Description: ">>
           \o Truncate(CleanDescription(Prop(task, "description").s)) \o <<NL>>
      ELSE <<>>)
  \o (IF Truthy(Prop(task, "assignees")) /\ Prop(Prop(task, "assignees"), "length").t = "number"
         /\ Len(task.assignees.a) > 0
      THEN <<"   Assigned to: ">>
           \o Join([i \in 1..Len(task.assignees.a) |->
                      ToStr(Or(Or(Prop(task.assignees.a[i], "username"),
                                  Prop(task.assignees.a[i], "email")),
                               Str(<<"Unknown user">>)))], ", ")
           \o <<NL>>
      ELSE <<>>)
  \o (IF Truthy(Prop(task, "tags")) /\ Prop(Prop(task, "tags"), "length").t = "number"
         /\ Len(task.tags.a) > 0
      THEN <<"   Tags: ">>
           \o Join([i \in 1..Len(task.tags.a) |->
                      ToStr(Or(Prop(task.tags.a[i], "name"), task.tags.a[i]))], ", ")
           \o <<NL>>
      ELSE <<>>)
  \o <<NL>>

\* what makes the forEach of the tasks case raise: a null item, a truthy
\* description that is no string (no replace method), a null tag or assignee
TaskBlockThrows(task) ==
  \/ task.t \in {"null", "undefined"}
  \/ Truthy(Prop(task, "description")) /\ Prop(task, "description").t # "string"
  \/ /\ IsArray(Prop(task, "tags"))
     /\ \E i \in 1..Len(task.tags.a) : task.tags.a[i].t \in {"null", "undefined"}
  \/ /\ IsArray(Prop(task, "assignees"))
     /\ \E i \in 1..Len(task.assignees.a) : task.assignees.a[i].t \in {"null", "undefined"}

ItemBlock(item, index, dataType) ==
  CASE dataType = "tasks" -> TaskBlock(item, index)
    [] dataType = "spaces" ->
         <<ToString(index), ". Space: ">> \o ToStr(Prop(item, "name")) \o <<NL>>
         \o <<"   ID: ">> \o ToStr(Prop(item, "id")) \o <<NL>>
         \o (IF IsArray(Prop(item, "statuses")) /\ Len(item.statuses.a) > 0
             THEN <<"   Statuses: ">>
                  \o Join([i \in 1..Len(item.statuses.a) |->
                             ToStr(Prop(item.statuses.a[i], "name"))], ", ")
                  \o <<NL>>
             ELSE <<>>)
         \o <<NL>>
    [] dataType = "lists" ->
         <<ToString(index), ". List: ">> \o ToStr(Prop(item, "name")) \o <<NL>>
         \o <<"   ID: ">> \o ToStr(Prop(item, "id")) \o <<NL>>
         \o (IF Truthy(Prop(item, "status"))
             THEN <<"   Status: ">> \o ToStr(Prop(item, "status")) \o <<NL>> ELSE <<>>)
         \o <<NL>>
    [] dataType = "folders" ->
         <<ToString(index), ". Folder: ">> \o ToStr(Prop(item, "name")) \o <<NL>>
         \o <<"   ID: ">> \o ToStr(Prop(item, "id")) \o <<NL, NL>>
    [] OTHER ->
         <<ToString(index), ". Item: ">>
         \o ToStr(Or(Prop(item, "name"), Str(<<"Unknown">>))) \o <<NL>>
         \o <<"   ID: ">> \o ToStr(Or(Prop(item, "id"), Str(<<"No ID">>))) \o <<NL, NL>>

ItemBlockThrows(item, dataType) ==
  IF dataType = "tasks" THEN TaskBlockThrows(item)
  ELSE item.t \in {"null", "undefined"}

\* the text of the returned { text } object
convertToTypingMindContext(data, dataType) ==
  IF ~IsArray(data) THEN <<"No ", dataType, " data available.">>
  ELSE IF Len(data.a) = 0 THEN <<"No ", dataType, " found.">>
  ELSE IF \E i \in 1..Len(data.a) : ItemBlockThrows(data.a[i], dataType)
       THEN <<"Error formatting ", dataType, " data: ", "TypeError">>
  ELSE <<"ClickUp ", Capitalize(dataType), ":", NL, NL>>
       \o Flat([i \in 1..Len(data.a) |-> ItemBlock(data.a[i], i, dataType)])

\* ---- formatResponseForTypingMind
\* the structured value handed to convertToTypingMindContext
FormattedData(data, dataType) ==
  CASE dataType = "tasks" -> formatTasksForTypingMind(data)
    [] dataType = "spaces" -> formatSpacesForTypingMind(data)
    [] dataType = "lists" -> formatListsForTypingMind(data)
    [] dataType = "folders" -> formatFoldersForTypingMind(data)
    [] dataType = "comments" -> formatCommentsForTypingMind(data)
    [] OTHER -> formatGenericForTypingMind(data, dataType)

\* TRUE when the call raises instead of returning
formatResponseThrows(data, dataType) ==
  /\ Truthy(data)
  /\ CASE dataType = "tasks" -> formatTasksThrows(data)
       [] dataType \in {"spaces", "lists", "folders", "comments"} ->
            ItemsThrow(Prop(data, dataType))
       [] OTHER -> FALSE

\* the text of the returned context
formatResponseForTypingMind(data, dataType) ==
  IF ~Truthy(data) THEN <<"No ", dataType, " data available.">>
  ELSE convertToTypingMindContext(FormattedData(data, dataType), dataType)

\* ---- combineFormattedResponses
\* The results object is the sequence of its entries in property order (the
\* order in which the keys were first assigned); entry = [key, text, error].
OverviewHeader == <<"ClickUp Workspace Overview:", NL, NL>>
NoDataText == <<"No ClickUp data available.">>

\* results[key] = value
Put(results, key, text, error) ==
  IF \E i \in 1..Len(results) : results[i].key = key
  THEN [i \in 1..Len(results) |->
          IF results[i].key = key THEN [key |-> key, text |-> text, error |-> error]
          ELSE results[i]]
  ELSE Append(results, [key |-> key, text |-> text, error |-> error])

\* the first index i with text[i] = text[i+1] = NL, or 0: text.includes('\n\n')
RECURSIVE BlankAt(_, _)
BlankAt(text, i) ==
  IF i + 1 > Len(text) THEN 0
  ELSE IF text[i] = NL /\ text[i + 1] = NL THEN i
  ELSE BlankAt(text, i + 1)

\* textContent.split('\n\n').slice(1).join('\n\n')
StripHeader(text) ==
  IF BlankAt(text, 1) = 0 THEN text
  ELSE SubSeq(text, BlankAt(text, 1) + 2, Len(text))

SectionOf(entry) ==
  IF entry.error THEN <<>>
  ELSE <<"== ", ToUpperCase(entry.key), " ==", NL, NL>>
       \o StripHeader(entry.text) \o <<NL, NL>>

SummaryOf(dataTypes) ==
  <<"== SUMMARY ==", NL, NL, "This overview includes information from ">>
  \o Join([i \in 1..Len(dataTypes) |-> <<dataTypes[i]>>], ", ")
  \o <<".", NL,
       "Use this information as context for your responses about ClickUp projects and tasks.",
       NL, NL>>

CombinedSections(results) ==
  OverviewHeader \o Flat([i \in 1..Len(results) |-> SectionOf(results[i])])

\* combineFormattedResponses without the check for an empty overview
combineNoEmptyCheck(results) ==
  IF Len(results) = 0 THEN NoDataText
  ELSE CombinedSections(results)
       \o SummaryOf([i \in 1..Len(results) |-> results[i].key])

combineFormattedResponses(results) ==
  IF Len(results) = 0 THEN NoDataText
  ELSE IF CombinedSections(results) = OverviewHeader THEN NoDataText
  ELSE CombinedSections(results)
       \o SummaryOf([i \in 1..Len(results) |-> results[i].key])

\* ------------------------------------------------------------ token manager
\* A token is a sequence of characters.  The store is the Map tokens: a
\* function whose domain is the set of user ids that have an entry.
PkPrefix == <<"p", "k", "_">>
TokA == <<"p", "k", "_", "a", "a", "a">>
TokEnv == <<"p", "k", "_", "e", "n", "v">>
TokShort == <<"p", "k", "_", "a">>
TokBad == <<"s", "k", "_", "a", "a", "a">>
NoToken == <<>>

Users == {"default"}

\* token.startsWith('pk_')
StartsWithPk(token) == Len(token) >= 3 /\ SubSeq(token, 1, 3) = PkPrefix

isValidTokenFormat(token) ==
  Len(token) > 0 /\ StartsWithPk(token) /\ Len(token) > 5

\* TRUE when storeToken raises
storeTokenThrows(userId, token) ==
  userId = "" \/ Len(token) = 0 \/ ~StartsWithPk(token)

storeToken(store, userId, token) ==
  IF storeTokenThrows(userId, token) THEN store
  ELSE [u \in (DOMAIN store) \cup {userId} |-> IF u = userId THEN token ELSE store[u]]

\* NoToken stands for null
getToken(store, userId) ==
  IF userId = "" THEN NoToken
  ELSE IF userId \in DOMAIN store THEN store[userId] ELSE NoToken

\* ---------------------------------------------------------- ClickUp service
TokenErrorUser == <<"No ClickUp API token found for this user">>
TokenErrorNone == <<"No ClickUp API token available">>
UpstreamError == <<"HTTP error 500">>

\* getHeaders that asks the token manager first and the environment last
getHeadersStoreFirst(env, store, userId) ==
  IF userId # "" /\ Len(getToken(store, userId)) > 0
  THEN [ok |-> TRUE, token |-> getToken(store, userId), msg |-> <<>>]
  ELSE IF Len(env) > 0 THEN [ok |-> TRUE, token |-> env, msg |-> <<>>]
  ELSE [ok |-> FALSE, token |-> NoToken, msg |-> TokenErrorUser]

\* getHeaders(userId): [ok, token] or [ok = FALSE, msg]; env is this.token
getHeaders(env, store, userId) ==
  IF Len(env) > 0 THEN [ok |-> TRUE, token |-> env, msg |-> <<>>]
  ELSE IF userId # ""
       THEN IF Len(getToken(store, userId)) > 0
            THEN [ok |-> TRUE, token |-> getToken(store, userId), msg |-> <<>>]
            ELSE [ok |-> FALSE, token |-> NoToken, msg |-> TokenErrorUser]
       ELSE [ok |-> FALSE, token |-> NoToken, msg |-> TokenErrorNone]

\* the headers of getRecentTasks: this.token ? getHeaders() : getHeaders(userId)
RecentTasksHeaders(env, store, userId) ==
  IF Len(env) > 0 THEN getHeaders(env, store, "") ELSE getHeaders(env, store, userId)

\* the service method the multi-kind handler calls first for a kind
FirstOp(kind) == IF kind = "tasks" THEN "getRecentTasks" ELSE "getSpaces"

\* the per-space method of the two-level kinds
NestedOp(kind) == IF kind = "lists" THEN "getFolderlessLists" ELSE "getFolders"

HeadersFor(op, env, store, userId) ==
  IF op = "getRecentTasks" THEN RecentTasksHeaders(env, store, userId)
  ELSE getHeaders(env, store, userId)

\* ------------------------------------------------------------ upstream data
\* What the ClickUp API may answer.  Items come back in upstream order.
TaskItem(i) ==
  IF i = 1
  THEN [t |-> "object",
        id |-> Str(<<"t1">>),
        name |-> Str(<<"Fix login">>),
        status |-> [t |-> "object", status |-> Str(<<"open">>)],
        due_date |-> Str(<<"1705276800000">>),
        description |-> Str(<<"*", "*", "H", "i", "*", "*", " ", "#", " ", "x">>),
        assignees |-> Arr(<<[t |-> "object", username |-> Str(<<"ann">>)]>>),
        tags |-> Arr(<<[t |-> "object", name |-> Str(<<"bug">>)]>>)]
  ELSE [t |-> "object",
        id |-> Str(<<"t", ToString(i)>>),
        name |-> Str(<<"Task ", ToString(i)>>)]

SpaceItem(i) ==
  [t |-> "object", id |-> Str(<<"sp", ToString(i)>>), name |-> Str(<<"Space ", ToString(i)>>)]

\* the j-th list or folder of the space with id spaceId
SubItem(kind, spaceId, j) ==
  [t |-> "object",
   id |-> Str(<<kind, "-">> \o spaceId \o <<"-", ToString(j)>>),
   name |-> Str(<<kind, " ", ToString(j), " of ">> \o spaceId)]

\* { tasks: [...] } and so on
Wrapped(prop, items) == [x \in {"t", prop} |-> IF x = "t" THEN "object" ELSE Arr(items)]

UpstreamAnswers(op, target) ==
  CASE op = "getRecentTasks" ->
         {Wrapped("tasks", [i \in 1..n |-> TaskItem(i)]) : n \in 0..MaxTasks}
    [] op = "getSpaces" ->
         {Wrapped("spaces", [i \in 1..n |-> SpaceItem(i)]) : n \in 0..MaxSpaces}
    [] op = "getFolderlessLists" ->
         {Wrapped("lists", [j \in 1..n |-> SubItem("lists", target, j)]) : n \in 0..MaxItems}
    [] op = "getLists" ->
         {Wrapped("lists", [j \in 1..n |-> SubItem("lists", target, j)]) : n \in 0..MaxItems}
    [] OTHER ->
         {Wrapped("folders", [j \in 1..n |-> SubItem("folders", target, j)]) : n \in 0..MaxItems}

\* ------------------------------------------------------------------- state
\* the request of Spec, and the requests of the specification in which two
\* run at the same time
ReqIds == {"r1"}
TwoReqIds == {"r1", "r2"}
ApiKeys == {"dev-key-123"}

VARIABLES
  envToken,   \* ClickUpService.token, from CLICKUP_API_TOKEN
  tokens,     \* the Map of the token manager
  req,        \* req[r]: the inputs of request r, phase "none" before it arrives
  units,      \* units[r][i]: the async function of the i-th dataTypes entry
  calls,      \* calls[r]: the upstream calls issued for r, in issue order
  results,    \* results[r]: the handler's results object
  response,   \* response[r]: what was sent, status 0 while nothing was sent
  single,     \* the request to GET /context/clickup, phase "none" before it arrives
  fmt,        \* the last call of formatResponseForTypingMind made on its own
  tokenOp,    \* the last token manager call or register-token request made on its own
  log         \* the logger module: its configuration and the calls made to it

vars == <<envToken, tokens, req, units, calls, results, response, single, fmt, tokenOp, log>>

NoRequest ==
  [phase |-> "none", apiKey |-> "", workspaceId |-> "", dataTypes |-> <<>>,
   limit |-> 0, userId |-> ""]

NoResponse == [status |-> 0, text |-> <<>>, sent |-> 0]

\* GET /context/clickup before it arrives.  call is "none" while no upstream
\* call was issued, then "pending", "ok" or "failed"; op, target and token
\* are those of the call.  status is 0 while nothing was sent; text is the
\* context document of a 200, error and message are the body of an error
\* response.
NoSingle ==
  [phase |-> "none", dataType |-> "", call |-> "none", op |-> "", target |-> <<>>,
   token |-> NoToken, data |-> Undef, status |-> 0, text |-> <<>>, error |-> <<>>,
   message |-> <<>>, sent |-> 0, apiKey |-> ""]

NoFormat == [phase |-> "none"]

NoTokenOp == [op |-> "none"]

NoLog == [phase |-> "none"]

Init ==
  /\ envToken \in {NoToken, TokEnv}
  /\ tokens = [u \in {} |-> NoToken]
  /\ req = [r \in TwoReqIds |-> NoRequest]
  /\ units = [r \in TwoReqIds |-> <<>>]
  /\ calls = [r \in TwoReqIds |-> <<>>]
  /\ results = [r \in TwoReqIds |-> <<>>]
  /\ response = [r \in TwoReqIds |-> NoResponse]
  /\ single = NoSingle
  /\ fmt = NoFormat
  /\ tokenOp = NoTokenOp
  /\ log = NoLog

\* ------------------------------------------- GET /context/clickup-all
\* The handler state of one request is ctx = [units, calls, results].
\* A unit is "start", "await" (its first upstream call is pending), "nested"
\* (its per-space calls are pending), "done" (its async function returned),
\* "skipped" (unknown kind) or "rejected" (its async function raised).
\* "spaces" is written with a leading blank, as in "tasks, spaces"; the
\* default list holds it without one
KindStrings == {"tasks", " spaces", "lists", "folders", "comments"}
UserIdInputs == {""}
DefaultDataTypes == <<"tasks", "lists", "spaces">>
KindLists == UNION {[1..n -> KindStrings] : n \in 1..MaxKinds}

Min(a, b) == IF a < b THEN a ELSE b
Max(a, b) == IF a > b THEN a ELSE b

\* a.slice(0, n)
Slice(a, n) ==
  IF n >= 0 THEN SubSeq(a, 1, Min(n, Len(a)))
  ELSE SubSeq(a, 1, Max(0, Len(a) + n))

NewCall(u, op, target, token) ==
  [unit |-> u, op |-> op, target |-> target, token |-> token,
   st |-> "pending", data |-> Undef]

\* a per-kind function without its catch block: the error leaves it
KindCatchRethrow(ctx, u, kind, msg) == [ctx EXCEPT !.units[u] = "rejected"]

\* the catch block of the per-kind async function
KindCatch(ctx, u, kind, msg) ==
  [ctx EXCEPT !.results = Put(@, kind, <<"Error fetching ", kind, ": ">> \o msg, TRUE),
              !.units[u] = "done"]

\* format the data of the kind and add it to results
KindComplete(ctx, u, kind, data) ==
  IF formatResponseThrows(data, kind)
  THEN KindCatch(ctx, u, kind, <<"TypeError">>)
  ELSE [ctx EXCEPT !.results = Put(@, kind, formatResponseForTypingMind(data, kind), FALSE),
                   !.units[u] = "done"]

\* LaunchUnit whose default case does not return: the unknown kind goes on
\* to the formatting step with no data
LaunchUnitNoSkip(ctx, u, rq, env, store) ==
  LET kind == Trim(rq.dataTypes[u])
      h == HeadersFor(FirstOp(kind), env, store, rq.userId)
  IN IF kind \notin KnownKinds THEN KindComplete(ctx, u, kind, Undef)
     ELSE IF ~h.ok THEN KindCatch(ctx, u, kind, h.msg)
     ELSE [ctx EXCEPT !.calls = Append(@, NewCall(u, FirstOp(kind), <<rq.workspaceId>>, h.token)),
                      !.units[u] = "await"]

\* the async function of entry u, up to its first await
LaunchUnit(ctx, u, rq, env, store) ==
  LET kind == Trim(rq.dataTypes[u])
      h == HeadersFor(FirstOp(kind), env, store, rq.userId)
  IN IF kind \notin KnownKinds THEN [ctx EXCEPT !.units[u] = "skipped"]
     ELSE IF ~h.ok THEN KindCatch(ctx, u, kind, h.msg)
     ELSE [ctx EXCEPT !.calls = Append(@, NewCall(u, FirstOp(kind), <<rq.workspaceId>>, h.token)),
                      !.units[u] = "await"]

\* dataTypes.map(async ...): the entries start in list order
RECURSIVE LaunchFrom(_, _, _, _, _)
LaunchFrom(ctx, u, rq, env, store) ==
  IF u > Len(rq.dataTypes) THEN ctx
  ELSE LaunchFrom(LaunchUnit(ctx, u, rq, env, store), u + 1, rq, env, store)

IsNested(call) == call.op \in {"getFolderlessLists", "getFolders"}

\* the per-space calls of unit u, in issue order (the order of limitedSpaces)
NestedCalls(ctx, u) == SelectSeq(ctx.calls, LAMBDA c : c.unit = u /\ IsNested(c))

\* spacesLists.forEach(...): the items of every answer that carries the property
FlattenAnswers(answers, kind) ==
  Flat([i \in 1..Len(answers) |->
          IF Truthy(answers[i].data) /\ Truthy(Prop(answers[i].data, kind))
          THEN Prop(answers[i].data, kind).a ELSE <<>>])

\* case 'lists' / case 'folders' after the spaces arrived
TwoLevel(ctx, u, kind, spaces, rq, env, store) ==
  IF Truthy(spaces) /\ Truthy(Prop(spaces, "spaces"))
  THEN LET limitedSpaces == Slice(spaces.spaces.a, rq.limit)
           h == getHeaders(env, store, rq.userId)
       IN IF Len(limitedSpaces) = 0 THEN KindComplete(ctx, u, kind, Wrapped(kind, <<>>))
          ELSE IF ~h.ok THEN KindCatch(ctx, u, kind, h.msg)
          ELSE [ctx EXCEPT
                  !.calls = @ \o [i \in 1..Len(limitedSpaces) |->
                                    NewCall(u, NestedOp(kind),
                                            ToStr(Prop(limitedSpaces[i], "id")), h.token)],
                  !.units[u] = "nested"]
  ELSE KindComplete(ctx, u, kind, Wrapped(kind, <<>>))

\* OnAnswer that issues a failed first-level call once more
OnAnswerRetry(ctx, c, ok, data, rq, env, store) ==
  LET u == ctx.calls[c].unit
      kind == Trim(rq.dataTypes[u])
      ctx1 == [ctx EXCEPT !.calls[c].st = IF ok THEN "ok" ELSE "failed",
                          !.calls[c].data = data]
  IN IF ctx.units[u] = "await"
     THEN IF ~ok
          THEN [ctx1 EXCEPT !.calls = Append(@, NewCall(u, ctx.calls[c].op,
                                                        ctx.calls[c].target,
                                                        ctx.calls[c].token))]
          ELSE IF kind \in {"tasks", "spaces"} THEN KindComplete(ctx1, u, kind, data)
          ELSE TwoLevel(ctx1, u, kind, data, rq, env, store)
     ELSE IF ctx.units[u] = "nested"
     THEN IF ~ok THEN KindCatch(ctx1, u, kind, data.s)
          ELSE IF \A i \in 1..Len(NestedCalls(ctx1, u)) : NestedCalls(ctx1, u)[i].st = "ok"
          THEN KindComplete(ctx1, u, kind,
                            Wrapped(kind, FlattenAnswers(NestedCalls(ctx1, u), kind)))
          ELSE ctx1
     ELSE ctx1

\* OnAnswer that waits for every per-space call and builds the kind from
\* the ones that were answered (Promise.allSettled)
OnAnswerSettled(ctx, c, ok, data, rq, env, store) ==
  LET u == ctx.calls[c].unit
      kind == Trim(rq.dataTypes[u])
      ctx1 == [ctx EXCEPT !.calls[c].st = IF ok THEN "ok" ELSE "failed",
                          !.calls[c].data = data]
  IN IF ctx.units[u] = "await"
     THEN IF ~ok THEN KindCatch(ctx1, u, kind, data.s)
          ELSE IF kind \in {"tasks", "spaces"} THEN KindComplete(ctx1, u, kind, data)
          ELSE TwoLevel(ctx1, u, kind, data, rq, env, store)
     ELSE IF ctx.units[u] = "nested"
     THEN IF \A i \in 1..Len(NestedCalls(ctx1, u)) : NestedCalls(ctx1, u)[i].st # "pending"
          THEN KindComplete(ctx1, u, kind,
                 Wrapped(kind, FlattenAnswers(
                    SelectSeq(NestedCalls(ctx1, u), LAMBDA n : n.st = "ok"), kind)))
          ELSE ctx1
     ELSE ctx1

\* the continuation that runs when upstream call c settles
OnAnswer(ctx, c, ok, data, rq, env, store) ==
  LET u == ctx.calls[c].unit
      kind == Trim(rq.dataTypes[u])
      ctx1 == [ctx EXCEPT !.calls[c].st = IF ok THEN "ok" ELSE "failed",
                          !.calls[c].data = data]
  IN IF ctx.units[u] = "await"
     THEN IF ~ok THEN KindCatch(ctx1, u, kind, data.s)
          ELSE IF kind \in {"tasks", "spaces"} THEN KindComplete(ctx1, u, kind, data)
          ELSE TwoLevel(ctx1, u, kind, data, rq, env, store)
     ELSE IF ctx.units[u] = "nested"
     THEN IF ~ok THEN KindCatch(ctx1, u, kind, data.s)
          ELSE IF \A i \in 1..Len(NestedCalls(ctx1, u)) : NestedCalls(ctx1, u)[i].st = "ok"
          THEN KindComplete(ctx1, u, kind,
                            Wrapped(kind, FlattenAnswers(NestedCalls(ctx1, u), kind)))
          ELSE ctx1
     ELSE ctx1

\* a handler that combines and sends as soon as one kind has finished
RespondEarly(ctx, resp) ==
  IF resp.status # 0 THEN resp
  ELSE IF \E u \in 1..Len(ctx.units) : ctx.units[u] \in {"done", "skipped"}
  THEN [status |-> 200, text |-> combineFormattedResponses(ctx.results),
        sent |-> resp.sent + 1]
  ELSE resp

\* after await Promise.all(...): combine and send, or the outer catch
Respond(ctx, resp) ==
  IF resp.status # 0 THEN resp
  ELSE IF \E u \in 1..Len(ctx.units) : ctx.units[u] = "rejected"
  THEN [status |-> 500, text |-> <<"Failed to fetch ClickUp data">>, sent |-> resp.sent + 1]
  ELSE IF \A u \in 1..Len(ctx.units) : ctx.units[u] \in {"done", "skipped"}
  THEN [status |-> 200, text |-> combineFormattedResponses(ctx.results),
        sent |-> resp.sent + 1]
  ELSE resp

\* a middleware that lets a request without a key through
validateApiKeyOptional(apiKey) == apiKey = "" \/ apiKey \in ApiKeys

\* validateApiKey: TRUE when the middleware calls next()
validateApiKey(apiKey) == apiKey # "" /\ apiKey \in ApiKeys

\* a results object that lives outside the handler: the other request's
SharedResults(r) == results[CHOOSE o \in TwoReqIds : o # r]

\* const results = {}
NewResults(r) == <<>>

\* a GET /context/clickup-all request arrives
ContextAll(r) ==
  /\ req[r].phase = "none"
  /\ single.phase = "none"
  /\ \E apiKey \in ApiKeys \cup {"", "wrong-key"}, workspaceId \in {"", "ws1"},
        dt \in KindLists \cup {<<>>}, limit \in 0..MaxLimit, uid \in UserIdInputs :
       LET rq == [phase |-> "received", apiKey |-> apiKey, workspaceId |-> workspaceId,
                  dataTypes |-> IF dt = <<>> THEN DefaultDataTypes ELSE dt,
                  limit |-> limit,
                  userId |-> IF uid = "" THEN "default" ELSE uid]
           ctx0 == [units |-> [i \in 1..Len(rq.dataTypes) |-> "start"],
                    calls |-> <<>>, results |-> NewResults(r)]
           ctx == LaunchFrom(ctx0, 1, rq, envToken, tokens)
       IN /\ Len(ctx.calls) <= MaxCalls
          /\ req' = [req EXCEPT ![r] = rq]
          /\ IF ~validateApiKey(apiKey)
             THEN /\ response' = [response EXCEPT ![r] =
                        [status |-> 401, text |-> <<"Unauthorized">>, sent |-> 1]]
                  /\ UNCHANGED <<units, calls, results>>
             ELSE IF workspaceId = ""
             THEN /\ response' = [response EXCEPT ![r] =
                        [status |-> 400,
                         text |-> <<"workspaceId is required in headers or query params">>,
                         sent |-> 1]]
                  /\ UNCHANGED <<units, calls, results>>
             ELSE /\ units' = [units EXCEPT ![r] = ctx.units]
                  /\ calls' = [calls EXCEPT ![r] = ctx.calls]
                  /\ results' = [results EXCEPT ![r] = ctx.results]
                  /\ response' = [response EXCEPT ![r] = Respond(ctx, @)]
  /\ UNCHANGED <<envToken, tokens, single, fmt, tokenOp, log>>

\* upstream call c of request r settles: fetchFromClickUp returns or raises;
\* most is the number of calls a request is followed up to
UpstreamSettlesWithin(r, most) ==
  /\ \E c \in 1..Len(calls[r]) :
       /\ calls[r][c].st = "pending"
       /\ \E ok \in BOOLEAN :
          \E data \in IF ok THEN UpstreamAnswers(calls[r][c].op, calls[r][c].target)
                      ELSE {Str(UpstreamError)} :
            LET ctx == OnAnswer([units |-> units[r], calls |-> calls[r],
                                 results |-> results[r]],
                                c, ok, data, req[r], envToken, tokens)
            IN /\ Len(ctx.calls) <= most
               /\ units' = [units EXCEPT ![r] = ctx.units]
               /\ calls' = [calls EXCEPT ![r] = ctx.calls]
               /\ results' = [results EXCEPT ![r] = ctx.results]
               /\ response' = [response EXCEPT ![r] = Respond(ctx, @)]
  /\ UNCHANGED <<envToken, tokens, req, single, fmt, tokenOp, log>>

UpstreamSettles(r) == UpstreamSettlesWithin(r, MaxCalls)

\* The inputs of POST /api/register-token, one for every path of the handler:
\* a wrong API key, a missing userId, a missing token, two tokens of a wrong
\* format and a valid registration.
RegisterInputs ==
  {[apiKey |-> "", userId |-> "default", token |-> TokA],
   [apiKey |-> "dev-key-123", userId |-> "", token |-> TokA],
   [apiKey |-> "dev-key-123", userId |-> "default", token |-> NoToken],
   [apiKey |-> "dev-key-123", userId |-> "default", token |-> TokBad],
   [apiKey |-> "dev-key-123", userId |-> "default", token |-> TokShort],
   [apiKey |-> "dev-key-123", userId |-> "default", token |-> TokA]}

\* POST /api/register-token: every path but the last answers 401, 400 or 500
\* and leaves the token manager alone
RegisterToken ==
  /\ \E in \in RegisterInputs :
       IF ~validateApiKey(in.apiKey)
       THEN UNCHANGED tokens
       ELSE IF in.userId = "" \/ Len(in.token) = 0
       THEN UNCHANGED tokens
       ELSE IF ~isValidTokenFormat(in.token)
       THEN UNCHANGED tokens
       ELSE IF storeTokenThrows(in.userId, in.token)
       THEN UNCHANGED tokens
       ELSE tokens' = storeToken(tokens, in.userId, in.token)
  /\ UNCHANGED <<envToken, req, units, calls, results, response, single, fmt, tokenOp, log>>

\* ---------------------------------------------- GET /context/clickup
\* The single-kind endpoint.  The model handles one context request in a
\* behaviour, to this endpoint or to /context/clickup-all.
\* "" stands for a request that names no dataType
SingleKindStrings == {"", "tasks", "spaces", "lists", "folders", "comments"}

\* the service method the switch (dataType) of the handler calls
SingleOp(dataType) ==
  CASE dataType = "tasks" -> "getRecentTasks"
    [] dataType = "spaces" -> "getSpaces"
    [] dataType = "lists" -> "getLists"
    [] OTHER -> "getRecentTasks"

\* an inner catch that answers with a document holding the error line
SingleFetchFailedAsDocument(s, msg) ==
  [s EXCEPT !.phase = "done", !.status = 200,
            !.text = <<"Error fetching ", s.dataType, ": ">> \o msg,
            !.sent = @ + 1]

\* an inner catch without its return: the handler goes on with no data, the
\* size of the data cannot be taken and the outer catch answers once more
SingleFetchFailedNoReturn(s, msg) ==
  [s EXCEPT !.phase = "done", !.status = 500,
            !.error = <<"Failed to fetch ClickUp data">>,
            !.message = <<"TypeError">>,
            !.sent = @ + 2]

\* the inner catch: the fetch raised with message msg
SingleFetchFailed(s, msg) ==
  [s EXCEPT !.phase = "done", !.status = 500,
            !.error = <<"Failed to fetch ", s.dataType, " from ClickUp">>,
            !.message = msg,
            !.sent = @ + 1]

\* after the fetch: format and answer 200, or the outer catch
SingleFormat(s, data) ==
  IF formatResponseThrows(data, s.dataType)
  THEN [s EXCEPT !.phase = "done", !.data = data, !.status = 500,
                 !.error = <<"Failed to fetch ClickUp data">>,
                 !.message = <<"TypeError">>,
                 !.sent = @ + 1]
  ELSE [s EXCEPT !.phase = "done", !.data = data, !.status = 200,
                 !.text = formatResponseForTypingMind(data, s.dataType),
                 !.sent = @ + 1]

\* a GET /context/clickup request arrives
ContextSingle ==
  /\ single.phase = "none"
  /\ \A r \in TwoReqIds : req[r].phase = "none"
  /\ \E apiKey \in ApiKeys \cup {"", "wrong-key"}, workspaceId \in {"", "ws1"},
        dt \in SingleKindStrings :
       LET dataType == IF dt = "" THEN "tasks" ELSE dt
           s0 == [single EXCEPT !.dataType = dataType, !.apiKey = apiKey]
           h == HeadersFor(SingleOp(dataType), envToken, tokens, "default")
       IN single' =
            IF ~validateApiKey(apiKey)
            THEN [s0 EXCEPT !.phase = "done", !.status = 401,
                            !.error = <<"Unauthorized">>, !.sent = @ + 1]
            ELSE IF workspaceId = ""
            THEN [s0 EXCEPT !.phase = "done", !.status = 400,
                            !.error = <<"workspaceId is required in headers or query params">>,
                            !.sent = @ + 1]
            ELSE IF ~h.ok THEN SingleFetchFailed(s0, h.msg)
            ELSE [s0 EXCEPT !.phase = "await", !.call = "pending",
                            !.op = SingleOp(dataType), !.target = <<workspaceId>>,
                            !.token = h.token]
  /\ UNCHANGED <<envToken, tokens, req, units, calls, results, response, fmt, tokenOp, log>>

\* the upstream call of the single-kind request settles
SingleSettles ==
  /\ single.phase = "await"
  /\ \E ok \in BOOLEAN :
     \E data \in IF ok THEN UpstreamAnswers(single.op, single.target)
                 ELSE {Str(UpstreamError)} :
       single' = IF ok THEN SingleFormat([single EXCEPT !.call = "ok"], data)
                 ELSE SingleFetchFailed([single EXCEPT !.call = "failed"], UpstreamError)
  /\ UNCHANGED <<envToken, tokens, req, units, calls, results, response, fmt, tokenOp, log>>

Next ==
  \/ \E r \in ReqIds : ContextAll(r)
  \/ \E r \in ReqIds : UpstreamSettles(r)
  \/ RegisterToken
  \/ ContextSingle
  \/ SingleSettles

Spec == Init /\ [][Next]_vars

\* The aggregation under fair upstream answers.  Every upstream call is
\* answered in the end: fetchFromClickUp returns or raises for each request
\* it makes.  The requests name one of these kind lists, which hold every
\* kind, the two-level kinds side by side, an unknown kind, a kind named
\* twice and the default.
LiveKindLists ==
  {<<"tasks", "lists">>, <<"folders", " spaces">>, <<"lists", "folders">>,
   <<"comments", "tasks">>, <<"tasks", "tasks">>, DefaultDataTypes}

ContextAllLive ==
  \E r \in ReqIds : ContextAll(r) /\ req'[r].dataTypes \in LiveKindLists

NextLive ==
  \/ ContextAllLive
  \/ \E r \in ReqIds : UpstreamSettles(r)
  \/ RegisterToken

Fairness == WF_vars(\E r \in ReqIds : UpstreamSettles(r))

SpecLive == Init /\ [][NextLive]_vars /\ Fairness

\* ------------------------------------- formatResponseForTypingMind alone
\* The formatter applied to one payload, as the handlers apply it to a parsed
\* JSON answer.  A payload holds JSON values only: null may occur, undefined
\* may not.
MaxEntries == 2    \* most items of a payload handed to the formatter

\* the values a raw task may carry in a field; Undef stands for "no such field"
IdOptions == {Undef, Null, Str(<<"t1">>)}
NameOptions == {Undef, Null, Str(<<"Fix login">>)}
StatusOptions == {Undef, [t |-> "object", status |-> Str(<<"open">>)]}
DueOptions ==
  {Undef, Null, Str(<<"1705276800000">>), Num(MsA), Str(IsoA), Str(<<"soon">>)}
DescriptionOptions ==
  {Undef, Str(<<>>), Str(<<"*", "*", "H", "i", "*", "*", " ", "#", " ", "x">>)}
AssigneesOptions ==
  {Undef, Arr(<<>>), Arr(<<[t |-> "object", username |-> Str(<<"ann">>)]>>),
   Arr(<<[t |-> "object", email |-> Str(<<"bob@x.io">>)], [t |-> "object"]>>)}
TagsOptions ==
  {Undef, Arr(<<>>), Arr(<<[t |-> "object", name |-> Str(<<"bug">>)], Str(<<"urgent">>)>>)}

TaskFields == {"id", "name", "status", "due_date", "description", "assignees", "tags"}

\* the raw task that carries exactly the fields of o that are not Undef
RawTask(o) ==
  [x \in {"t"} \cup {k \in TaskFields : o[k].t # "undefined"} |->
     IF x = "t" THEN "object" ELSE o[x]]

RawTasksByFields ==
  {RawTask(o) : o \in [id : IdOptions, name : NameOptions, status : StatusOptions,
                       due_date : DueOptions, description : DescriptionOptions,
                       assignees : AssigneesOptions, tags : TagsOptions]}

\* descriptions around the truncation limit, plain and with each markup the
\* renderer strips
Plain(n) == [i \in 1..n |-> "a"]
LongDescriptions ==
  UNION {{Plain(n),
          <<"*", "*">> \o Plain(n) \o <<"*", "*">>,
          <<"#", " ">> \o Plain(n),
          <<"[">> \o Plain(n) \o <<"]", "(", "u", ")">>}
         : n \in (DescLimit - 1)..(DescLimit + 2)}

RawTasksByDescription ==
  {[t |-> "object", id |-> Str(<<"t1">>), name |-> Str(<<"Fix login">>),
    description |-> Str(d)] : d \in LongDescriptions}

\* the items of a task list of an unexpected shape
OddItems ==
  {Null, Num(7), Str(<<"x">>), Arr(<<>>), [t |-> "object"],
   [t |-> "object", id |-> Str(<<"t2">>), name |-> Str(<<"Task 2">>)]}

OddLists == UNION {[1..n -> OddItems] : n \in 0..MaxEntries}

\* formatResponseForTypingMind(data, dataType), with what it returned
Formatted(data, dataType) ==
  [phase |-> "done", dataType |-> dataType, data |-> data,
   threw |-> formatResponseThrows(data, dataType),
   entries |-> IF formatResponseThrows(data, dataType) \/ ~Truthy(data) THEN Undef
               ELSE FormattedData(data, dataType),
   text |-> IF formatResponseThrows(data, dataType) THEN <<>>
            ELSE formatResponseForTypingMind(data, dataType)]

\* a tasks answer is formatted: { tasks: [...] } or the bare array
FormatTasksPayload ==
  /\ fmt.phase = "none"
  /\ \E data \in {Wrapped("tasks", <<task>>) : task \in RawTasksByFields \cup RawTasksByDescription}
               \cup {Wrapped("tasks", l) : l \in OddLists}
               \cup {Arr(l) : l \in OddLists} :
       fmt' = Formatted(data, "tasks")
  /\ UNCHANGED <<envToken, tokens, req, units, calls, results, response, single, tokenOp, log>>

\* a spaces, lists, folders or comments answer is formatted
FormatItemsPayload ==
  /\ fmt.phase = "none"
  /\ \E kind \in {"spaces", "lists", "folders", "comments"}, n \in 0..MaxEntries :
       fmt' = Formatted(Wrapped(kind, [j \in 1..n |-> SubItem(kind, <<"sp1">>, j)]), kind)
  /\ UNCHANGED <<envToken, tokens, req, units, calls, results, response, single, tokenOp, log>>

InitFormat == Init /\ envToken = NoToken

NextFormat ==
  \/ FormatTasksPayload
  \/ FormatItemsPayload

SpecFormat == InitFormat /\ [][NextFormat]_vars

\* ------------------------------------------- POST /api/register-token alone
\* The handler applied to one request body after another, with what it
\* answered.  userId and token are the JSON values of the body, Undef when
\* the body has no such field.
TokB == <<"p", "k", "_", "b", "b", "b">>

ApiKeyInputs == ApiKeys \cup {"", "wrong-key"}
UserIdValues == {Undef, Str(<<>>), Str(<<"default">>), Str(<<"u1">>)}
TokenValues ==
  {Undef, Null, Str(NoToken), Str(TokA), Str(TokB), Str(TokShort), Str(TokBad),
   Num(12345)}

\* the key of the Map for a userId given as a string value
UserKey(userId) == IF Len(userId.s) = 0 THEN "" ELSE userId.s[1]

\* the status and message of the response
registerTokenAnswer(apiKey, userId, token) ==
  IF apiKey = "" THEN [status |-> 401, message |-> <<"API key is required">>]
  ELSE IF ~validateApiKey(apiKey) THEN [status |-> 401, message |-> <<"Invalid API key">>]
  ELSE IF ~Truthy(userId) \/ ~Truthy(token)
  THEN [status |-> 400, message |-> <<"Both userId and token are required">>]
  ELSE IF token.t # "string"
  THEN [status |-> 500, message |-> <<"token.startsWith is not a function">>]
  ELSE IF ~isValidTokenFormat(token.s)
  THEN [status |-> 400,
        message |-> <<"Invalid ClickUp token format. Token should start with \"pk_\"">>]
  ELSE IF storeTokenThrows(UserKey(userId), token.s)
  THEN [status |-> 500,
        message |-> <<"Invalid ClickUp API token format. Token should start with \"pk_\"">>]
  ELSE [status |-> 200, message |-> <<"ClickUp token registered successfully">>]

\* a POST /api/register-token request is handled
RegisterTokenRequest ==
  /\ \E apiKey \in ApiKeyInputs, userId \in UserIdValues, token \in TokenValues :
       LET answer == registerTokenAnswer(apiKey, userId, token)
       IN /\ tokenOp' = [op |-> "register-token", apiKey |-> apiKey, userId |-> userId,
                         token |-> token, status |-> answer.status,
                         message |-> answer.message, before |-> tokens]
          /\ tokens' = IF answer.status = 200
                       THEN storeToken(tokens, UserKey(userId), token.s)
                       ELSE tokens
  /\ UNCHANGED <<envToken, req, units, calls, results, response, single, fmt, log>>

InitRegister == Init /\ envToken = NoToken

NextRegister == RegisterTokenRequest

SpecRegister == InitRegister /\ [][NextRegister]_vars

\* ------------------------------------------------- the token manager alone
\* The methods of the token manager called one after another on the Map,
\* each with what it returned.
StoreUserIds == {"", "default", "u1"}
StoreTokens == {NoToken, TokA, TokB, TokShort, TokBad}

\* tokens.has(userId)
hasToken(store, userId) == userId \in DOMAIN store

\* a removeToken that reports the removal and keeps the entry
removeTokenKeepsEntry(store, userId) == store

\* the Map after removeToken(userId)
removeToken(store, userId) ==
  IF userId = "" THEN store
  ELSE [u \in (DOMAIN store) \ {userId} |-> store[u]]

\* what removeToken(userId) returns
removeTokenResult(store, userId) == userId # "" /\ userId \in DOMAIN store

\* the record of a call: ok is the boolean the method returned (FALSE when
\* it raised or returns no boolean), value the token getToken returned
TokenCall(op, userId, token, threw, ok, value, before) ==
  [op |-> op, userId |-> userId, token |-> token, threw |-> threw, ok |-> ok,
   value |-> value, before |-> before]

StoreTokenCall ==
  /\ \E userId \in StoreUserIds, token \in StoreTokens :
       /\ tokenOp' = TokenCall("storeToken", userId, token,
                               storeTokenThrows(userId, token),
                               ~storeTokenThrows(userId, token), NoToken, tokens)
       /\ tokens' = storeToken(tokens, userId, token)
  /\ UNCHANGED <<envToken, req, units, calls, results, response, single, fmt, log>>

GetTokenCall ==
  /\ \E userId \in StoreUserIds :
       tokenOp' = TokenCall("getToken", userId, NoToken, FALSE, FALSE,
                            getToken(tokens, userId), tokens)
  /\ UNCHANGED <<envToken, tokens, req, units, calls, results, response, single, fmt, log>>

HasTokenCall ==
  /\ \E userId \in StoreUserIds :
       tokenOp' = TokenCall("hasToken", userId, NoToken, FALSE,
                            hasToken(tokens, userId), NoToken, tokens)
  /\ UNCHANGED <<envToken, tokens, req, units, calls, results, response, single, fmt, log>>

RemoveTokenCall ==
  /\ \E userId \in StoreUserIds :
       /\ tokenOp' = TokenCall("removeToken", userId, NoToken, FALSE,
                               removeTokenResult(tokens, userId), NoToken, tokens)
       /\ tokens' = removeToken(tokens, userId)
  /\ UNCHANGED <<envToken, req, units, calls, results, response, single, fmt, log>>

InitStore == Init /\ envToken = NoToken

NextStore ==
  \/ StoreTokenCall
  \/ GetTokenCall
  \/ HasTokenCall
  \/ RemoveTokenCall

SpecStore == InitStore /\ [][NextStore]_vars

\* ------------------------------------------------ the protected endpoints
\* Requests to the three endpoints behind validateApiKey, with and without
\* a valid key.  The context requests name one kind and the registrations
\* are those of the user "default", so that the three handlers can be taken
\* together.
AuthRegistrations == {Undef, Str(TokA)}

ContextAllOneKind ==
  \E r \in ReqIds : ContextAll(r) /\ Len(req'[r].dataTypes) = 1

RegisterTokenDefaultUser ==
  /\ RegisterTokenRequest
  /\ tokenOp'.userId = Str(<<"default">>)
  /\ tokenOp'.token \in AuthRegistrations

NextAuth ==
  \/ ContextAllOneKind
  \/ \E r \in ReqIds : UpstreamSettles(r)
  \/ ContextSingle
  \/ SingleSettles
  \/ RegisterTokenDefaultUser

SpecAuth == Init /\ [][NextAuth]_vars

\* ------------------------------------------------------------- the logger
\* The logger module is loaded under an environment and its level methods
\* are called.  "" stands for an environment variable that is not set.
MaxLogCalls == 2    \* most calls of a level method after the module loaded

LOG_LEVELS == [ERROR |-> 0, WARN |-> 1, INFO |-> 2, DEBUG |-> 3, TRACE |-> 4]

NodeEnvInputs == {"", "production"}
LogLevelInputs == {"", "error", "warn", "info", "debug", "trace", "WARN", "verbose"}

\* process.env.LOG_LEVEL.toUpperCase()
LogLevelUpper(s) ==
  CASE s = "error" -> "ERROR"
    [] s = "warn" -> "WARN"
    [] s = "info" -> "INFO"
    [] s = "debug" -> "DEBUG"
    [] s = "trace" -> "TRACE"
    [] s = "verbose" -> "VERBOSE"
    [] OTHER -> s

DEFAULT_LOG_LEVEL(nodeEnv) ==
  IF nodeEnv = "production" THEN LOG_LEVELS.INFO ELSE LOG_LEVELS.DEBUG

\* LOG_LEVELS[name], as a value
LevelValue(name) == IF name \in DOMAIN LOG_LEVELS THEN Num(LOG_LEVELS[name]) ELSE Undef

CURRENT_LOG_LEVEL(nodeEnv, logLevel) ==
  IF logLevel # ""
  THEN Or(LevelValue(LogLevelUpper(logLevel)), Num(DEFAULT_LOG_LEVEL(nodeEnv))).n
  ELSE DEFAULT_LOG_LEVEL(nodeEnv)

\* the module is loaded
LoggerLoads ==
  /\ log.phase = "none"
  /\ \E nodeEnv \in NodeEnvInputs, logLevel \in LogLevelInputs :
       log' = [phase |-> "loaded", nodeEnv |-> nodeEnv, logLevel |-> logLevel,
               current |-> CURRENT_LOG_LEVEL(nodeEnv, logLevel), calls |-> <<>>]
  /\ UNCHANGED <<envToken, tokens, req, units, calls, results, response, single, fmt, tokenOp>>

\* logger.error / warn / info / debug / trace: _log(level, levelName, ...)
LogCall ==
  /\ log.phase = "loaded"
  /\ Len(log.calls) < MaxLogCalls
  /\ \E levelName \in DOMAIN LOG_LEVELS :
       log' = [log EXCEPT !.calls =
                 Append(@, [level |-> levelName,
                            emitted |-> LOG_LEVELS[levelName] <= log.current])]
  /\ UNCHANGED <<envToken, tokens, req, units, calls, results, response, single, fmt, tokenOp>>

InitLog == Init /\ envToken = NoToken

NextLog ==
  \/ LoggerLoads
  \/ LogCall

SpecLog == InitLog /\ [][NextLog]_vars

\* ------------------------------------------------ two requests at a time
\* Two accepted multi-kind requests whose upstream calls settle in any
\* interleaving.
TwoKindLists == {<<"tasks">>, <<" spaces">>, <<"tasks", " spaces">>}

ContextAllOfTwo ==
  \E r \in TwoReqIds :
    /\ ContextAll(r)
    /\ req'[r].dataTypes \in TwoKindLists
    /\ validateApiKey(req'[r].apiKey)
    /\ req'[r].workspaceId # ""
    /\ req'[r].limit = MaxLimit

NextTwo ==
  \/ ContextAllOfTwo
  \/ \E r \in TwoReqIds : UpstreamSettles(r)

SpecTwo == Init /\ [][NextTwo]_vars

\* ------------------------------------------- the two-level fetch, followed
\* One request for lists or folders, alone or beside tasks, followed through
\* one call more than in Spec: the spaces fetch, a fetch for each of two
\* spaces and the tasks fetch.
NestedKindLists ==
  {<<"lists">>, <<"folders">>, <<"lists", "tasks">>, <<"tasks", "folders">>}

ContextAllNested ==
  \E r \in ReqIds :
    /\ ContextAll(r)
    /\ req'[r].dataTypes \in NestedKindLists
    /\ validateApiKey(req'[r].apiKey)
    /\ req'[r].workspaceId # ""
    /\ req'[r].limit = MaxLimit

UpstreamSettlesNested == \E r \in ReqIds : UpstreamSettlesWithin(r, MaxCalls + 1)

NextNested == ContextAllNested \/ UpstreamSettlesNested

SpecNested == Init /\ [][NextNested]_vars

\* ------------------------------------------------- requests and tokens
\* Context requests with a valid key and a workspace id, and registrations
\* that store one of two tokens for the user of those requests, in any
\* order: before a request, or between two of its upstream calls.
TokenRegistrations == {Str(TokA), Str(TokB)}

TokenKindLists ==
  {<<"tasks">>, <<"lists">>, <<"folders">>, <<"tasks", "lists">>, <<" spaces", "folders">>}

ContextAllToken ==
  \E r \in ReqIds :
    /\ ContextAll(r)
    /\ req'[r].dataTypes \in TokenKindLists
    /\ validateApiKey(req'[r].apiKey)
    /\ req'[r].workspaceId # ""
    /\ req'[r].limit = MaxLimit

ContextSingleToken ==
  ContextSingle /\ single'.status \notin {400, 401}

RegisterTokenStored ==
  /\ RegisterTokenRequest
  /\ tokenOp'.status = 200
  /\ tokenOp'.userId = Str(<<"default">>)
  /\ tokenOp'.token \in TokenRegistrations

NextToken ==
  \/ ContextAllToken
  \/ \E r \in ReqIds : UpstreamSettles(r)
  \/ ContextSingleToken
  \/ SingleSettles
  \/ RegisterTokenStored

SpecToken == Init /\ [][NextToken]_vars

\* ---------------------------------------------------- reading a document
\* the labels of the section headers "== LABEL ==" of a document, in order
RECURSIVE SectionLabelsFrom(_, _)
SectionLabelsFrom(doc, i) ==
  IF i + 2 > Len(doc) THEN <<>>
  ELSE IF doc[i] = "== " /\ doc[i + 2] = " =="
       THEN <<doc[i + 1]>> \o SectionLabelsFrom(doc, i + 3)
       ELSE SectionLabelsFrom(doc, i + 1)

SectionLabels(doc) == SectionLabelsFrom(doc, 1)

\* the kinds named by the summary sentence, in order
RECURSIVE NamesUntilStop(_, _)
NamesUntilStop(doc, i) ==
  IF i > Len(doc) \/ doc[i] = "." THEN <<>>
  ELSE IF doc[i] = ", " THEN NamesUntilStop(doc, i + 1)
  ELSE <<doc[i]>> \o NamesUntilStop(doc, i + 1)

SummaryKinds(doc) ==
  IF IndexFrom(doc, "This overview includes information from ", 1) = 0 THEN <<>>
  ELSE NamesUntilStop(doc, IndexFrom(doc, "This overview includes information from ", 1) + 1)

Range(f) == {f[i] : i \in DOMAIN f}

\* the document holds the token sequence part
Contains(doc, part) ==
  \E i \in 0..(Len(doc) - Len(part)) : SubSeq(doc, i + 1, i + Len(part)) = part

\* the document has an error line that names the kind
HasErrorLine(doc, kind) == Contains(doc, <<"Error fetching ", kind>>)

\* a is a subsequence of b
RECURSIVE IsSubsequence(_, _)
IsSubsequence(a, b) ==
  IF Len(a) = 0 THEN TRUE
  ELSE IF Len(b) = 0 THEN FALSE
  ELSE IF Head(a) = Head(b) THEN IsSubsequence(Tail(a), Tail(b))
  ELSE IsSubsequence(a, Tail(b))

Count(seq, x) == Cardinality({i \in DOMAIN seq : seq[i] = x})

\* ------------------------------------------------- reading a request state
Accepted(r) ==
  req[r].phase = "received" /\ validateApiKey(req[r].apiKey) /\ req[r].workspaceId # ""

KindAt(r, u) == Trim(req[r].dataTypes[u])
UnitIds(r) == 1..Len(units[r])
CallsOf(r, u) == SelectSeq(calls[r], LAMBDA c : c.unit = u)

\* the outcome of the i-th requested kind: Success when its function
\* finished and every upstream call it issued was answered, Failure when it
\* finished after a token error (no call) or a failed call
UnitSucceeded(r, u) ==
  /\ units[r][u] = "done"
  /\ Len(CallsOf(r, u)) > 0
  /\ \A i \in 1..Len(CallsOf(r, u)) : CallsOf(r, u)[i].st = "ok"

UnitFailed(r, u) == units[r][u] = "done" /\ ~UnitSucceeded(r, u)

Doc(r) == response[r].text

\* no kind occurs twice in the kind list of the request
DistinctKinds(r) ==
  \A u, v \in UnitIds(r) : KindAt(r, u) = KindAt(r, v) => u = v

\* ------------------------------------------------------------------ claims

\* C1: in a multi-kind answer where some kinds failed and others succeeded,
\* the document holds an error line naming every failed kind.
C1_ErrorLineForFailedKind ==
  \A r \in ReqIds :
    (/\ response[r].status = 200
     /\ DistinctKinds(r)
     /\ \E u \in UnitIds(r) : UnitSucceeded(r, u)) =>
      \A u \in UnitIds(r) : UnitFailed(r, u) => HasErrorLine(Doc(r), KindAt(r, u))

\* C2: the sections of the combined document follow the order of the
\* caller's kind list, whatever the order in which the fetches settled.
C2_SectionsInCallerOrder ==
  \A r \in ReqIds :
    response[r].status = 200 =>
      IsSubsequence(SectionLabels(Doc(r)),
                    [u \in UnitIds(r) |-> ToUpperCase(KindAt(r, u))])

\* C3: an accepted multi-kind request never fails as a whole: no kind's
\* function raises, nothing but a 200 is ever sent, and once every kind
\* has settled a 200 with a text document has been sent.
C3_NeverFailsAsWhole ==
  \A r \in ReqIds :
    Accepted(r) =>
      /\ response[r].status \in {0, 200}
      /\ \A u \in UnitIds(r) : units[r][u] # "rejected"
      /\ (\A u \in UnitIds(r) : units[r][u] \in {"done", "skipped"}) =>
           (response[r].status = 200 /\ Len(Doc(r)) > 0)

\* C3 witness: a 200 was sent although every requested kind failed, one of
\* them by an upstream error.
C3_Witness ==
  \E r \in ReqIds :
    /\ Accepted(r) /\ response[r].status = 200
    /\ Len(units[r]) >= 2
    /\ \A u \in UnitIds(r) : UnitFailed(r, u)
    /\ \E c \in 1..Len(calls[r]) : calls[r][c].st = "failed"

\* C4: when every fetch succeeded, a kind that occurs k times in the kind
\* list has k sections in the document.
C4_DuplicatesRenderKTimes ==
  \A r \in ReqIds :
    (response[r].status = 200 /\ \A u \in UnitIds(r) : UnitSucceeded(r, u)) =>
      \A k \in KnownKinds :
        Count(SectionLabels(Doc(r)), ToUpperCase(k))
          = Count([u \in UnitIds(r) |-> KindAt(r, u)], k)

\* C5: the summary names exactly the kinds that have a section.
C5_SummaryListsIncludedKinds ==
  \A r \in ReqIds :
    (response[r].status = 200 /\ Contains(Doc(r), <<"== SUMMARY ==">>)) =>
      {ToUpperCase(k) : k \in Range(SummaryKinds(Doc(r)))} = Range(SectionLabels(Doc(r)))

\* C6 as stated: when no requested kind succeeded the document is exactly
\* "No data available."
C6_NoDataSentenceAsStated ==
  \A r \in ReqIds :
    (response[r].status = 200 /\ \A u \in UnitIds(r) : ~UnitSucceeded(r, u)) =>
      Doc(r) = <<"No data available.">>

\* C6 amended: when no requested kind succeeded (each failed or was
\* unknown) the document is exactly "No ClickUp data available.", with no
\* header, no section and no summary.
C6_NoDataSentence ==
  \A r \in ReqIds :
    (response[r].status = 200 /\ \A u \in UnitIds(r) : ~UnitSucceeded(r, u)) =>
      Doc(r) = <<"No ClickUp data available.">>

\* C6 witness: a 200 for a request whose known kinds all failed upstream.
C6_Witness ==
  \E r \in ReqIds :
    /\ response[r].status = 200
    /\ \E u \in UnitIds(r) : UnitFailed(r, u) /\ Len(CallsOf(r, u)) > 0
    /\ \A u \in UnitIds(r) : ~UnitSucceeded(r, u)

\* the spaces answer of the two-level unit u, once it arrived
SpacesAnswer(r, u) == CallsOf(r, u)[1].data

\* the per-space calls of unit u target the first min(limit, N) spaces of the
\* answer, in upstream order
FanOutTargetsFirstSpaces(r, u) ==
  LET spaces == SpacesAnswer(r, u).spaces.a
      n == Min(req[r].limit, Len(spaces))
      nested == SelectSeq(CallsOf(r, u), IsNested)
  IN /\ Len(nested) = n
     /\ \A i \in 1..n : /\ nested[i].target = ToStr(spaces[i].id)
                        /\ nested[i].op = NestedOp(KindAt(r, u))

\* the id lines of the items the per-space calls of unit u answered, in
\* space order
FlattenedIdLines(r, u) ==
  LET nested == SelectSeq(CallsOf(r, u), IsNested)
  IN Flat([i \in 1..Len(nested) |->
             Flat([j \in 1..Len(nested[i].data[KindAt(r, u)].a) |->
                     <<"   ID: ">> \o ToStr(nested[i].data[KindAt(r, u)].a[j].id)])])

\* C7: for lists and folders exactly min(L, N) per-space fetches go to the
\* first min(L, N) spaces in upstream order, and the document has a single
\* section of the kind that holds the fetched items in space order.
C7_TwoLevelFanOut ==
  \A r \in ReqIds : \A u \in UnitIds(r) :
    (/\ Accepted(r)
     /\ KindAt(r, u) \in {"lists", "folders"}
     /\ DistinctKinds(r)
     /\ Len(CallsOf(r, u)) > 0
     /\ CallsOf(r, u)[1].st = "ok") =>
      /\ FanOutTargetsFirstSpaces(r, u)
      /\ (response[r].status = 200 /\ UnitSucceeded(r, u)) =>
           /\ Count(SectionLabels(Doc(r)), ToUpperCase(KindAt(r, u))) = 1
           /\ IsSubsequence(FlattenedIdLines(r, u), Doc(r))

\* C8 as stated: every requested tasks or spaces kind has issued exactly
\* one upstream call.
C8_ExactlyOneCallAsStated ==
  \A r \in ReqIds : \A u \in UnitIds(r) :
    (Accepted(r) /\ KindAt(r, u) \in {"tasks", "spaces"}) => Len(CallsOf(r, u)) = 1

\* the result of the kind is the token-resolution error
TokenErrorResult(r, kind) ==
  \E i \in 1..Len(results[r]) :
    /\ results[r][i].key = kind
    /\ results[r][i].error
    /\ results[r][i].text = <<"Error fetching ", kind, ": ">> \o TokenErrorUser

\* C8 amended: every requested tasks or spaces kind issues exactly one
\* upstream call, or none when no auth token could be resolved (its result
\* is then the token error); a failed call stays failed and its kind issues
\* no further call, so a Failure is final for that kind.
C8_OneCallNoRetry ==
  /\ [](\A r \in ReqIds : \A u \in UnitIds(r) :
          (Accepted(r) /\ KindAt(r, u) \in {"tasks", "spaces"}) =>
            \/ Len(CallsOf(r, u)) = 1
            \/ Len(CallsOf(r, u)) = 0 /\ TokenErrorResult(r, KindAt(r, u)))
  /\ [][\A r \in ReqIds : \A c \in 1..Len(calls[r]) :
          calls[r][c].st = "failed" =>
            /\ Len(calls'[r]) >= Len(calls[r])
            /\ calls'[r][c] = calls[r][c]
            /\ units'[r][calls[r][c].unit] = "done"
            /\ \A d \in (Len(calls[r]) + 1)..Len(calls'[r]) :
                 calls'[r][d].unit # calls[r][c].unit]_vars

\* C8 witness: a tasks or spaces kind whose only call failed, after the
\* answer was sent.
C8_Witness ==
  \E r \in ReqIds : \E u \in UnitIds(r) :
    /\ response[r].status = 200
    /\ KindAt(r, u) \in {"tasks", "spaces"}
    /\ Len(CallsOf(r, u)) = 1
    /\ CallsOf(r, u)[1].st = "failed"

\* C9: an unknown kind is skipped: it issues no upstream call, gets no
\* entry in results, no section, no error line and no mention in the
\* document, and every section of the document belongs to a supported kind
\* of the request.
C9_UnknownKindSkipped ==
  \A r \in ReqIds : \A u \in UnitIds(r) :
    (Accepted(r) /\ KindAt(r, u) \notin KnownKinds) =>
      /\ units[r][u] = "skipped"
      /\ Len(CallsOf(r, u)) = 0
      /\ \A i \in 1..Len(results[r]) : results[r][i].key # KindAt(r, u)
      /\ response[r].status = 200 =>
           /\ ToUpperCase(KindAt(r, u)) \notin Range(SectionLabels(Doc(r)))
           /\ KindAt(r, u) \notin Range(Doc(r))
           /\ Range(SectionLabels(Doc(r))) \subseteq
                {ToUpperCase(KindAt(r, v)) : v \in {w \in UnitIds(r) : UnitSucceeded(r, w)}}
           /\ (\A v \in UnitIds(r) : KindAt(r, v) \in KnownKinds => UnitSucceeded(r, v)) =>
                Range(SectionLabels(Doc(r))) =
                  {ToUpperCase(KindAt(r, v)) : v \in {w \in UnitIds(r) : UnitSucceeded(r, w)}}

\* C9 witness: an answer to a request that named an unknown kind next to a
\* kind that succeeded.
C9_Witness ==
  \E r \in ReqIds :
    /\ response[r].status = 200
    /\ \E u \in UnitIds(r) : KindAt(r, u) \notin KnownKinds
    /\ \E u \in UnitIds(r) : UnitSucceeded(r, u)

\* C10: when the answer of a multi-kind request is sent, no upstream call
\* the request launched is still pending.
C10_NoPendingCallAtResponse ==
  \A r \in ReqIds :
    response[r].status = 200 =>
      \A c \in 1..Len(calls[r]) : calls[r][c].st # "pending"

\* --------------------------------------------- reading the single request
\* the single-kind request passed validateApiKey and the workspaceId check
SingleAccepted == single.phase # "none" /\ single.status \notin {401, 400}

\* the kinds with a case of their own in the switch of the single-kind handler
DedicatedKinds == {"tasks", "spaces", "lists"}

\* the service methods that fetch the resource of a kind
FetchesOf(kind) ==
  CASE kind = "tasks" -> {"getRecentTasks"}
    [] kind = "spaces" -> {"getSpaces"}
    [] kind = "lists" -> {"getLists", "getFolderlessLists"}
    [] kind = "folders" -> {"getFolders"}
    [] OTHER -> {}

\* the items of kind in an upstream answer
ItemsOf(data, kind) ==
  IF IsArray(Prop(data, kind)) THEN Prop(data, kind).a ELSE <<>>

\* the id lines of the items, in upstream order
IdLines(items) ==
  Flat([i \in 1..Len(items) |-> <<"   ID: ">> \o ToStr(Prop(items[i], "id"))])

\* C11: a single-kind request for a kind without a fetch and format path of
\* its own is answered with an error, never with a success response.
C11_UnsupportedKindIsError ==
  (SingleAccepted /\ single.phase = "done" /\ single.dataType \notin DedicatedKinds) =>
    (single.status >= 400 /\ single.text = <<>>)

\* C12: in single-kind mode an upstream error or a token-resolution error
\* ends the request with an error response that carries the error message
\* and no context document; in multi-kind mode the failure of a kind never
\* fails the request, which answers 200 once every kind has settled.
C12_FetchErrorSurfacedInSingleMode ==
  /\ (SingleAccepted /\ single.phase = "done" /\ single.call \in {"none", "failed"}) =>
       /\ single.status = 500
       /\ single.text = <<>>
       /\ single.error = <<"Failed to fetch ", single.dataType, " from ClickUp">>
       /\ single.message =
            (IF single.call = "failed" THEN UpstreamError ELSE TokenErrorUser)
  /\ \A r \in ReqIds :
       (Accepted(r) /\ \E u \in UnitIds(r) : UnitFailed(r, u)) =>
         /\ response[r].status \in {0, 200}
         /\ (\A u \in UnitIds(r) : units[r][u] \in {"done", "skipped"}) =>
              response[r].status = 200

\* C12 witness: a single-kind request whose upstream call failed got its
\* error response.
C12_Witness ==
  single.phase = "done" /\ single.call = "failed" /\ single.sent = 1

\* C20: the single-kind endpoint fetches the resource of the requested kind
\* and its 200 document holds the id line of every fetched item of that kind.
C20_SingleKindServedFromOwnKind ==
  (SingleAccepted /\ single.call # "none" /\ single.dataType \in KnownKinds) =>
    /\ single.op \in FetchesOf(single.dataType)
    /\ single.status = 200 =>
         IsSubsequence(IdLines(ItemsOf(single.data, single.dataType)), single.text)

\* ------------------------------------------- reading a formatted payload
\* the raw item list of the payload that was formatted
RawItems(f) ==
  IF f.dataType = "tasks" THEN TasksOf(f.data) ELSE Prop(f.data, f.dataType)

\* the label that opens an entry block of a kind
EntryLabel(kind) ==
  CASE kind = "tasks" -> ". Task: "
    [] kind = "spaces" -> ". Space: "
    [] kind = "lists" -> ". List: "
    [] kind = "folders" -> ". Folder: "
    [] OTHER -> ". Item: "

LabelPositions(text, label) == {p \in 1..Len(text) : text[p] = label}

\* the k-th smallest member of a set of positions
KthPosition(S, k) == CHOOSE p \in S : Cardinality({q \in S : q <= p}) = k

\* the k-th entry block of a text: from its number to the token before the
\* number of the next block, or to the end of the text
BlockOf(text, label, k) ==
  LET S == LabelPositions(text, label)
  IN SubSeq(text, KthPosition(S, k) - 1,
            IF k < Cardinality(S) THEN KthPosition(S, k + 1) - 2 ELSE Len(text))

HasLine(block, label) == IndexFrom(block, label, 1) # 0

\* what follows a line label up to the end of its line
LineOf(block, label) ==
  SubSeq(block, IndexFrom(block, label, 1) + 1,
         IndexFrom(block, NL, IndexFrom(block, label, 1)) - 1)

\* the text is a numbered list of exactly n entry blocks of the kind, each a
\* label line followed by the id line, the i-th carrying the i-th item's name
NumberedBlocks(text, kind, items) ==
  /\ Cardinality(LabelPositions(text, EntryLabel(kind))) = Len(items)
  /\ \A k \in 1..Len(items) :
       LET b == BlockOf(text, EntryLabel(kind), k)
       IN /\ b[1] = ToString(k)
          /\ b[2] = EntryLabel(kind)
          /\ b[IndexFrom(b, NL, 3) + 1] = "   ID: "
          /\ Prop(items[k], "name").t = "string" =>
               SubSeq(b, 3, IndexFrom(b, NL, 3) - 1) = items[k].name.s

\* C13: for tasks, spaces, lists and folders, a payload of n >= 1 items is
\* rendered as a numbered list of exactly n entry blocks, numbered 1..n in
\* the order of the payload, each starting with the label line followed by
\* the id line.
C13_NumberedEntryBlocks ==
  (/\ fmt.phase = "done"
   /\ fmt.dataType \in {"tasks", "spaces", "lists", "folders"}
   /\ IsArray(RawItems(fmt))
   /\ Len(RawItems(fmt).a) >= 1) =>
    /\ ~fmt.threw
    /\ NumberedBlocks(fmt.text, fmt.dataType, RawItems(fmt).a)

\* C14: for every kind, formatting a payload whose item list is empty yields
\* zero entries and the text is exactly "No <kind> found.".
C14_EmptyListSentence ==
  (/\ fmt.phase = "done"
   /\ IsArray(RawItems(fmt))
   /\ Len(RawItems(fmt).a) = 0) =>
    /\ ~fmt.threw
    /\ IsArray(fmt.entries)
    /\ Len(fmt.entries.a) = 0
    /\ fmt.text = <<"No ", fmt.dataType, " found.">>

\* the lines of a task block in their fixed order, by the raw field they show
TaskLineFields == <<"name", "id", "status", "due_date", "description", "assignees", "tags">>

LineLabel(field) ==
  CASE field = "name" -> ". Task: "
    [] field = "id" -> "   ID: "
    [] field = "status" -> "   Status: "
    [] field = "due_date" -> "   Due: "
    [] field = "description" -> "   Description: "
    [] field = "assignees" -> "   Assigned to: "
    [] OTHER -> "   Tags: "

\* a timestamp that denotes a point in time: a number, epoch milliseconds
\* written as text, or an ISO string
IsTimestamp(v) ==
  \/ v.t = "number"
  \/ v.t = "string" /\ v.s \in {IsoA, <<"1705276800000">>}

\* the raw item carries a non-empty value in the field
FieldPresent(raw, field) ==
  CASE field \in {"name", "id"} -> TRUE
    [] field = "status" -> Truthy(Prop(Prop(raw, "status"), "status"))
    [] field = "due_date" -> IsTimestamp(Prop(raw, "due_date"))
    [] field = "description" -> Truthy(Prop(raw, "description"))
    [] OTHER -> IsArray(Prop(raw, field)) /\ Len(Prop(raw, field).a) > 0

\* C15: the block of a task holds, in the order Task, ID, Status, Due,
\* Description, Assigned to, Tags, exactly the lines whose field the raw item
\* carries with a non-empty value; formatting does not raise.
C15_TaskBlockLinesPresentFields ==
  (/\ fmt.phase = "done"
   /\ fmt.dataType = "tasks"
   /\ IsArray(RawItems(fmt))
   /\ Len(RawItems(fmt).a) >= 1) =>
    /\ ~fmt.threw
    /\ Cardinality(LabelPositions(fmt.text, ". Task: ")) = Len(RawItems(fmt).a)
    /\ \A k \in 1..Len(RawItems(fmt).a) :
         LET b == BlockOf(fmt.text, ". Task: ", k)
         IN /\ \A i \in 1..Len(TaskLineFields) :
                 HasLine(b, LineLabel(TaskLineFields[i]))
                   <=> FieldPresent(RawItems(fmt).a[k], TaskLineFields[i])
            /\ \A i, j \in 1..Len(TaskLineFields) :
                 (/\ i < j
                  /\ HasLine(b, LineLabel(TaskLineFields[i]))
                  /\ HasLine(b, LineLabel(TaskLineFields[j]))) =>
                   IndexFrom(b, LineLabel(TaskLineFields[i]), 1)
                     < IndexFrom(b, LineLabel(TaskLineFields[j]), 1)

\* the raw items of a formatted tasks payload whose description is a
\* non-empty string
WithDescription ==
  {k \in 1..Len(RawItems(fmt).a) :
     /\ Prop(RawItems(fmt).a[k], "description").t = "string"
     /\ Len(RawItems(fmt).a[k].description.s) > 0}

\* C16: a task description whose length after markup stripping is n renders
\* unmodified when n <= 100 and as its first 100 characters followed by
\* "..." when n > 100.
C16_TruncationBoundary ==
  (/\ fmt.phase = "done"
   /\ fmt.dataType = "tasks"
   /\ ~fmt.threw
   /\ IsArray(RawItems(fmt))) =>
    \A k \in WithDescription :
      LET clean == CleanDescription(RawItems(fmt).a[k].description.s)
          b == BlockOf(fmt.text, ". Task: ", k)
      IN /\ HasLine(b, "   Description: ")
         /\ Len(clean) <= 100 => LineOf(b, "   Description: ") = clean
         /\ Len(clean) > 100 =>
              LineOf(b, "   Description: ") = SubSeq(clean, 1, 100) \o <<"...">>

\* C16 witness: a description that still has 101 characters after its markup
\* was stripped has been rendered with the three dots.
C16_Witness ==
  /\ fmt.phase = "done"
  /\ fmt.dataType = "tasks"
  /\ IsArray(RawItems(fmt))
  /\ \E k \in WithDescription :
       /\ Len(RawItems(fmt).a[k].description.s) > 101
       /\ Len(CleanDescription(RawItems(fmt).a[k].description.s)) = 101
       /\ "..." \in Range(LineOf(BlockOf(fmt.text, ". Task: ", k), "   Description: "))

\* C17: every entry the task formatter produces has an id and a name that
\* are neither null nor undefined, and the Task and ID lines rendered from
\* it never show null or undefined.
C17_IdAndLabelAlwaysPresent ==
  (/\ fmt.phase = "done"
   /\ fmt.dataType = "tasks"
   /\ ~fmt.threw
   /\ IsArray(fmt.entries)) =>
    \A k \in 1..Len(fmt.entries.a) :
      /\ Prop(fmt.entries.a[k], "id").t \notin {"null", "undefined"}
      /\ Prop(fmt.entries.a[k], "name").t \notin {"null", "undefined"}
      /\ LineOf(BlockOf(fmt.text, ". Task: ", k), "   ID: ")
           \notin {<<"null">>, <<"undefined">>}
      /\ LineOf(BlockOf(fmt.text, ". Task: ", k), ". Task: ")
           \notin {<<"null">>, <<"undefined">>}

\* the id an entry is expected to carry for a raw item
ExpectedId(raw, placeholder) ==
  IF raw.t = "object" /\ "id" \in DOMAIN raw THEN raw.id ELSE Str(placeholder)

\* C18: for every list of JSON items, null and oddly shaped ones included,
\* the task formatter returns without raising a sequence of the same length
\* and order; the entry of an item whose formatting raised (a null item)
\* carries only id, name and the error marker, every other entry is a full
\* one.
C18_BadItemDegradesAlone ==
  (/\ fmt.phase = "done"
   /\ fmt.dataType = "tasks"
   /\ IsArray(RawItems(fmt))) =>
    /\ ~fmt.threw
    /\ IsArray(fmt.entries)
    /\ Len(fmt.entries.a) = Len(RawItems(fmt).a)
    /\ \A k \in 1..Len(RawItems(fmt).a) :
         IF RawItems(fmt).a[k].t = "null"
         THEN /\ DOMAIN fmt.entries.a[k] = {"t", "id", "name", "error"}
              /\ fmt.entries.a[k].id = Str(<<"unknown">>)
              /\ fmt.entries.a[k].error = Str(<<"Error formatting task data">>)
         ELSE /\ DOMAIN fmt.entries.a[k] =
                   {"t", "id", "name", "description", "status", "dueDate",
                    "assignees", "tags"}
              /\ fmt.entries.a[k].id = ExpectedId(RawItems(fmt).a[k], <<"unknown-id">>)

\* C18 witness: a list of two items, a null one and a well-formed task, has
\* been formatted, the null one into a degraded entry.
C18_Witness ==
  /\ fmt.phase = "done"
  /\ fmt.dataType = "tasks"
  /\ IsArray(RawItems(fmt))
  /\ IsArray(fmt.entries)
  /\ Len(RawItems(fmt).a) = 2
  /\ \E i, j \in 1..2 :
       /\ RawItems(fmt).a[i].t = "null"
       /\ "error" \in DOMAIN fmt.entries.a[i]
       /\ RawItems(fmt).a[j].t = "object"
       /\ "id" \in DOMAIN RawItems(fmt).a[j]

\* C19: a due date given as epoch milliseconds in a string, as a number or
\* as an ISO string is normalized to an ISO-8601 value and rendered on the
\* Due line; only a missing or unparsable value is omitted; the conversion
\* never raises.
C19_DateNormalization ==
  (/\ fmt.phase = "done"
   /\ fmt.dataType = "tasks"
   /\ IsArray(RawItems(fmt))) =>
    /\ ~fmt.threw
    /\ \A k \in 1..Len(RawItems(fmt).a) :
         IF IsTimestamp(Prop(RawItems(fmt).a[k], "due_date"))
         THEN /\ fmt.entries.a[k].dueDate = Str(IsoA)
              /\ HasLine(BlockOf(fmt.text, ". Task: ", k), "   Due: ")
              /\ LineOf(BlockOf(fmt.text, ". Task: ", k), "   Due: ") = IsoA
         ELSE ~HasLine(BlockOf(fmt.text, ". Task: ", k), "   Due: ")

\* a body that carries a non-empty userId and a token of the valid format
ValidRegistration(userId, token) ==
  /\ userId.t = "string" /\ Len(userId.s) > 0
  /\ token.t = "string" /\ Len(token.s) > 5 /\ SubSeq(token.s, 1, 3) = <<"p", "k", "_">>

\* C22: after any sequence of register-token requests every stored token
\* starts with "pk_" and is longer than 5 characters, and a registration
\* rejected for a missing userId or token or for an invalid token format is
\* answered 400 and leaves the token store unchanged.
C22_StoreHoldsValidTokensOnly ==
  /\ \A u \in DOMAIN tokens :
       Len(tokens[u]) > 5 /\ SubSeq(tokens[u], 1, 3) = <<"p", "k", "_">>
  /\ (/\ tokenOp.op = "register-token"
      /\ tokenOp.apiKey \in ApiKeys
      /\ ~ValidRegistration(tokenOp.userId, tokenOp.token)) =>
       /\ tokenOp.status = 400
       /\ tokens = tokenOp.before

\* the entries of every user but userId are the same in both Maps
OthersUntouched(before, after, userId) ==
  /\ (DOMAIN before) \ {userId} = (DOMAIN after) \ {userId}
  /\ \A u \in (DOMAIN before) \ {userId} : after[u] = before[u]

\* C29: a successful storeToken(u, t) makes getToken(u) return t and changes
\* no other user's entry; a storeToken that raises (empty userId, or a token
\* that does not start with "pk_") leaves the Map unchanged; removeToken(u)
\* returns true exactly when u had a token, and afterwards getToken(u) is
\* null and hasToken(u) is false; getToken and hasToken never change the Map.
C29_TokenStoreOperations ==
  /\ tokenOp.op = "storeToken" =>
       /\ tokenOp.threw <=>
            (tokenOp.userId = "" \/ Len(tokenOp.token) < 3
             \/ SubSeq(tokenOp.token, 1, 3) # <<"p", "k", "_">>)
       /\ tokenOp.threw => tokens = tokenOp.before
       /\ ~tokenOp.threw =>
            /\ getToken(tokens, tokenOp.userId) = tokenOp.token
            /\ OthersUntouched(tokenOp.before, tokens, tokenOp.userId)
  /\ tokenOp.op = "removeToken" =>
       /\ tokenOp.ok <=> tokenOp.userId \in DOMAIN tokenOp.before
       /\ getToken(tokens, tokenOp.userId) = NoToken
       /\ ~hasToken(tokens, tokenOp.userId)
       /\ OthersUntouched(tokenOp.before, tokens, tokenOp.userId)
  /\ tokenOp.op \in {"getToken", "hasToken"} => tokens = tokenOp.before

\* C29 witness: the token of one user was removed while another user's
\* token stayed in the Map.
C29_Witness ==
  /\ tokenOp.op = "removeToken"
  /\ tokenOp.ok
  /\ tokenOp.userId \in DOMAIN tokenOp.before
  /\ DOMAIN tokens # {}

\* a context request of either endpoint, or a registration, made with a key
\* that is missing or not configured is in the state
RefusedAll(r) == req[r].phase # "none" /\ req[r].apiKey \notin ApiKeys
RefusedSingle == single.phase # "none" /\ single.apiKey \notin ApiKeys
RefusedRegistration == tokenOp.op = "register-token" /\ tokenOp.apiKey \notin ApiKeys

\* a step after which every refused request has its 401 and nothing else:
\* no upstream call, no document, the token store as it was
RefusalHasNoEffect ==
  /\ \A r \in ReqIds :
       RefusedAll(r)' =>
         /\ response'[r].status = 401 /\ response'[r].sent = 1
         /\ calls'[r] = <<>> /\ units'[r] = <<>> /\ results'[r] = <<>>
         /\ (req[r].phase = "none" => tokens' = tokens)
  /\ RefusedSingle' =>
       /\ single'.status = 401 /\ single'.sent = 1
       /\ single'.call = "none" /\ single'.text = <<>>
       /\ (single.phase = "none" => tokens' = tokens)
  /\ (RefusedRegistration' /\ tokenOp' # tokenOp) =>
       /\ tokenOp'.status = 401
       /\ tokens' = tokens
       /\ calls' = calls /\ single' = single

\* C21: a request to a protected endpoint whose API key is missing or not in
\* the configured set is answered 401, issues no upstream call and leaves
\* the token store unchanged.
C21_BadKeyIs401WithoutEffect == [][RefusalHasNoEffect]_vars

\* C21 witness: with a token in the store, a multi-kind request that carried
\* a key outside the configured set has been answered.
C21_Witness ==
  /\ DOMAIN tokens # {}
  /\ \E r \in ReqIds : RefusedAll(r) /\ req[r].apiKey = "wrong-key" /\ response[r].sent = 1

\* the five documented values of LOG_LEVEL
DocumentedLogLevels == <<"error", "warn", "info", "debug", "trace">>

\* the place of a level in the order of decreasing severity
SeverityRank(level) ==
  CHOOSE i \in 1..Len(DocumentedLogLevels) :
    DocumentedLogLevels[i] = level \/ LogLevelUpper(DocumentedLogLevels[i]) = level

\* C23: with LOG_LEVEL set to one of error, warn, info, debug, trace, a
\* message is emitted if and only if its level is at least as severe as the
\* configured one; with LOG_LEVEL=error only error messages are emitted.
C23_LogLevelSelectsMessages ==
  (/\ log.phase = "loaded"
   /\ log.logLevel \in Range(DocumentedLogLevels)) =>
    \A c \in 1..Len(log.calls) :
      log.calls[c].emitted
        <=> SeverityRank(log.calls[c].level) <= SeverityRank(log.logLevel)

\* every kind of the request is resolved: its function returned or skipped
AllResolved(r) ==
  Len(units[r]) > 0 /\ \A u \in UnitIds(r) : units[r][u] \in {"done", "skipped"}

\* the document was produced and sent
Combined(r) == response[r].status = 200 /\ response[r].sent = 1

\* the response is sent exactly when every kind is resolved
CombinedExactlyWhenResolved ==
  \A r \in ReqIds : Accepted(r) => (Combined(r) <=> AllResolved(r))

\* Combined is terminal, and a resolved kind stays as it resolved: neither
\* its state nor the results entries change afterwards
ResolvedOnce ==
  \A r \in ReqIds :
    /\ Combined(r) => response'[r] = response[r] /\ results'[r] = results[r]
    /\ \A u \in UnitIds(r) :
         units[r][u] \in {"done", "skipped"} =>
           /\ units'[r][u] = units[r][u]
           /\ UnitFailed(r, u) => UnitFailed(r, u)'
           /\ UnitSucceeded(r, u) => UnitSucceeded(r, u)'

\* C24: when every upstream call is answered in the end, an accepted
\* multi-kind request eventually reaches Combined; it sends its response
\* exactly when every kind is resolved, Combined is terminal, and each kind
\* leaves Pending for Success or Failure at most once.
C24_AggregationReachesCombined ==
  /\ \A r \in ReqIds : Accepted(r) ~> Combined(r)
  /\ []CombinedExactlyWhenResolved
  /\ [][ResolvedOnce]_vars

\* C24 witness: a request of two kinds is Combined, one kind a Success and
\* the other a Failure.
C24_Witness ==
  \E r \in ReqIds :
    /\ Accepted(r)
    /\ Combined(r)
    /\ \E u, v \in UnitIds(r) : UnitSucceeded(r, u) /\ UnitFailed(r, v)

\* the tasks the request's own tasks fetches returned
OwnTaskCount(r) ==
  Len(Flat([c \in 1..Len(calls[r]) |->
              IF calls[r][c].op = "getRecentTasks" /\ calls[r][c].st = "ok"
              THEN ItemsOf(calls[r][c].data, "tasks") ELSE <<>>]))

\* the document of r is made of r's own outcomes: its sections are of kinds
\* whose fetch succeeded for r, its summary names kinds r finished, and its
\* task blocks are as many as r's own tasks fetch returned
BuiltFromOwnOutcomes(r) ==
  /\ \A label \in Range(SectionLabels(Doc(r))) :
       \E u \in UnitIds(r) : ToUpperCase(KindAt(r, u)) = label /\ UnitSucceeded(r, u)
  /\ \A kind \in Range(SummaryKinds(Doc(r))) :
       \E u \in UnitIds(r) : KindAt(r, u) = kind /\ units[r][u] = "done"
  /\ Count(Doc(r), ". Task: ") = OwnTaskCount(r)

\* C25: when two multi-kind requests are in progress at the same time, the
\* document of each is built from the outcomes of its own fetches only,
\* whatever the order in which the upstream calls settle.
C25_RequestIsolation ==
  \A r \in TwoReqIds : response[r].status = 200 => BuiltFromOwnOutcomes(r)

\* C25 witness: both requests asked for tasks and were answered while the
\* other was in progress; one document has a task block, the other, whose
\* tasks fetch failed, has a section and no task block.
C25_Witness ==
  /\ \A r \in TwoReqIds : response[r].status = 200
  /\ \E r, o \in TwoReqIds :
       /\ r # o
       /\ OwnTaskCount(r) > 0
       /\ \E u \in UnitIds(o) : KindAt(o, u) = "tasks" /\ UnitFailed(o, u)
       /\ Len(SectionLabels(Doc(o))) > 0
       /\ Len(calls[o]) > 1

\* a per-space call of unit u of request r has failed
NestedFailed(r, u) ==
  \E c \in 1..Len(calls[r]) :
    calls[r][c].unit = u /\ IsNested(calls[r][c]) /\ calls[r][c].st = "failed"

\* the entry of results under the key
EntryOf(r, key) ==
  LET i == CHOOSE i \in 1..Len(results[r]) : results[r][i].key = key
  IN results[r][i]

\* the kind of unit u ended as a Failure: its entry is the error entry and
\* the document has no section of the kind
KindIsFailure(r, u) ==
  /\ units[r][u] = "done"
  /\ EntryOf(r, KindAt(r, u)) =
       [key |-> KindAt(r, u),
        text |-> <<"Error fetching ", KindAt(r, u), ": ">> \o UpstreamError,
        error |-> TRUE]
  /\ response[r].status = 200 =>
       /\ ToUpperCase(KindAt(r, u)) \notin Range(SectionLabels(Doc(r)))
       /\ \A c \in 1..Len(calls[r]) : \A j \in 1..(MaxItems + 1) :
            calls[r][c].unit = u /\ IsNested(calls[r][c]) =>
              ~Contains(Doc(r), SubItem(KindAt(r, u), calls[r][c].target, j).name.s)

\* the kinds beside a failed two-level fetch are answered as if it were not
\* there: a kind whose calls were all answered has its section
OtherKindsKept(r, u) ==
  \A v \in UnitIds(r) \ {u} :
    UnitSucceeded(r, v) /\ response[r].status = 200 =>
      ToUpperCase(KindAt(r, v)) \in Range(SectionLabels(Doc(r)))

\* the step in which a per-space call of unit u fails touches unit u only
NestedFailureIsLocal ==
  \A r \in ReqIds : \A u \in UnitIds(r) :
    (~NestedFailed(r, u) /\ NestedFailed(r, u)') =>
      /\ \A v \in UnitIds(r) \ {u} : units'[r][v] = units[r][v]
      /\ \A i \in 1..Len(results[r]) :
           results[r][i].key # KindAt(r, u) =>
             \E j \in 1..Len(results'[r]) : results'[r][j] = results[r][i]
      /\ \A c \in 1..Len(calls[r]) :
           calls[r][c].unit # u => calls'[r][c] = calls[r][c]

\* C26: in the two-level fetch for lists or folders, when the fetch for one
\* of the selected spaces fails the kind ends as a Failure: its entry is the
\* error entry, the document has no section of the kind and no item of another
\* space, and the other kinds of the request are unaffected.
C26_NestedFailureFailsKind ==
  /\ [](\A r \in ReqIds : \A u \in UnitIds(r) :
         NestedFailed(r, u) => KindIsFailure(r, u) /\ OtherKindsKept(r, u))
  /\ [][NestedFailureIsLocal]_vars

\* C26 witness: lists or folders beside tasks; of the two per-space fetches
\* one returned an item and one failed, the tasks fetch returned a task, and
\* the request was answered.
C26_Witness ==
  \E r \in ReqIds : \E u, v \in UnitIds(r) :
    /\ response[r].status = 200
    /\ NestedFailed(r, u)
    /\ \E c \in 1..Len(calls[r]) :
         /\ calls[r][c].unit = u /\ IsNested(calls[r][c]) /\ calls[r][c].st = "ok"
         /\ Len(Prop(calls[r][c].data, KindAt(r, u)).a) > 0
    /\ KindAt(r, v) = "tasks" /\ UnitSucceeded(r, v)
    /\ Count(Doc(r), ". Task: ") > 0

\* the token the service selects for the user of the context requests
SelectedToken ==
  IF Len(envToken) > 0 THEN envToken
  ELSE IF "default" \in DOMAIN tokens THEN tokens["default"]
  ELSE NoToken

\* the upstream calls issued in this step carry the selected token, and
\* none is issued when there is no token to select
IssuedWithSelectedToken ==
  /\ \A r \in ReqIds : \A c \in (Len(calls[r]) + 1)..Len(calls'[r]) :
       /\ Len(SelectedToken) > 0
       /\ calls'[r][c].token = SelectedToken
  /\ (single.phase = "none" /\ single'.phase = "await") =>
       (Len(SelectedToken) > 0 /\ single'.token = SelectedToken)

\* a request that arrives when there is no token fails without a call: the
\* multi-kind one has an error entry for every known kind, the single-kind
\* one is answered 500
FailsWithoutToken ==
  Len(SelectedToken) = 0 =>
    /\ \A r \in ReqIds :
         (req[r].phase = "none" /\ Accepted(r)') =>
           /\ calls'[r] = <<>>
           /\ \A u \in 1..Len(units'[r]) :
                /\ units'[r][u] = "done"
                /\ \E i \in 1..Len(results'[r]) :
                     results'[r][i] =
                       [key |-> Trim(req'[r].dataTypes[u]),
                        text |-> <<"Error fetching ", Trim(req'[r].dataTypes[u]), ": ">>
                                 \o TokenErrorUser,
                        error |-> TRUE]
    /\ (single.phase = "none" /\ single'.phase # "none") =>
         (single'.phase = "done" /\ single'.status = 500 /\ single'.call = "none")

C28_OneTokenPerRequest ==
  Len(envToken) = 0 =>
    \A r \in ReqIds : \A c, d \in 1..Len(calls[r]) :
      calls[r][c].token = calls[r][d].token

\* no upstream call of request r is pending
NoCallPending(r) == \A c \in 1..Len(calls[r]) : calls[r][c].st # "pending"

\* the multi-kind request was answered once, with the status of its path
AnsweredOnceAll(r) ==
  /\ response[r].sent <= 1
  /\ response[r].sent = 1 <=> response[r].status # 0
  /\ response[r].status \in {0, 200, 400, 401, 500}
  /\ req[r].phase = "none" => response[r].sent = 0
  /\ (req[r].phase = "received" /\ ~validateApiKey(req[r].apiKey)) =>
       response[r].status = 401
  /\ (req[r].phase = "received" /\ validateApiKey(req[r].apiKey)
        /\ req[r].workspaceId = "") => response[r].status = 400
  /\ (Accepted(r) /\ NoCallPending(r)) => response[r].status \in {200, 500}
  /\ (Accepted(r) /\ response[r].status = 500) =>
       \E u \in UnitIds(r) : units[r][u] = "rejected"

\* the single-kind request was answered once, with the status of its path
AnsweredOnceSingle ==
  /\ single.sent <= 1
  /\ single.sent = 1 <=> single.phase = "done"
  /\ single.sent = 1 <=> single.status # 0
  /\ single.status \in {0, 200, 400, 401, 500}
  /\ single.phase = "await" => single.call = "pending"
  /\ single.call = "failed" => single.status = 500
  /\ (single.call = "ok" /\ formatResponseThrows(single.data, single.dataType)) =>
       single.status = 500
  /\ (single.call = "ok" /\ ~formatResponseThrows(single.data, single.dataType)) =>
       single.status = 200

\* a response that was sent is not followed by another
NoSecondResponse ==
  /\ \A r \in ReqIds : response[r].sent = 1 => response'[r] = response[r]
  /\ single.sent = 1 =>
       /\ single'.sent = 1 /\ single'.status = single.status
       /\ single'.text = single.text /\ single'.error = single.error

\* C30: a request to the single-kind or to the multi-kind context endpoint is
\* answered exactly once on every path (no workspace id: 400, failed fetch or
\* failed formatting: 500, success: 200): no second response follows a
\* response, and a request whose upstream calls have all settled has been
\* answered.
C30_ExactlyOneResponse ==
  /\ [](AnsweredOnceSingle /\ \A r \in ReqIds : AnsweredOnceAll(r))
  /\ [][NoSecondResponse]_vars

\* C30 witness: the fetch of a single-kind request with a valid key and a
\* workspace id failed and the request was answered 500, once.
C30_Witness ==
  /\ single.phase = "done" /\ single.call = "failed"
  /\ single.status = 500 /\ single.sent = 1
  /\ validateApiKey(single.apiKey)

====
